---- MODULE Spec2Model ----
(***************************************************************************)
(* Fleet manager of avalauncher: the Manager of internal/manager (hosts,   *)
(* nodes, L1s, validator assignments, events), its asynchronous            *)
(* provisioning and reconfiguration tasks, its two pollers and its startup *)
(* reconciliation, together with the container runtimes it drives.         *)
(*                                                                         *)
(* The relational store is modelled row by row (hosts, nodes, l1s,         *)
(* validators) with the constraints of the schema; the events table is     *)
(* insert-only and never read back by an operation, so the model keeps the *)
(* rows inserted by the latest step (emitted).  Each container runtime is  *)
(* a machine ("local" or an ssh address) holding containers.               *)
(***************************************************************************)
EXTENDS Naturals, Sequences, FiniteSets, TLC

\* ------------------------------------------------------------------ bounds
MaxNodes == 2
MaxContainers == 3
MaxHosts == 2
MaxL1s == 2
MaxTasks == 2
MaxRestarts == 1
MaxEvents == 3

\* ------------------------------------------------------- program constants
DefaultStakingPort == 9651

\* ------------------------------------------------------------- universes
NodeNames == {"n1", "n2"}
\* staking_port of a request: 0 is "unspecified"
ReqPorts == {0, DefaultStakingPort, DefaultStakingPort + 1}
RemoteHostNames == {"r1"}
Addrs == {"ssh1"}
Machines == {"local"} \cup Addrs
L1Names == {"x", "y"}
SubnetIDs == {"s1", "s2"}

LocalHostID == 1
NoCID == 0
NoClient == "none"

NodeStatuses == {"creating", "running", "stopped", "failed", "unhealthy"}
ContainerStates == {"created", "running", "exited", "restarting", "dead", "paused"}

VARIABLES
    hosts,        \* hosts table: id -> [name, ssh, status]
    nextHost,     \* next identity value of hosts.id
    clients,      \* Manager.clients / localClient: host id -> machine | NoClient
    up,           \* ssh address -> whether its runtime answers
    nodes,        \* nodes table: id -> [name, host, port, cid, status, nodeID]
    nextNode,     \* next identity value of nodes.id
    containers,   \* container id -> [m, name, state, port, subs]
    nextCID,      \* next container id a runtime hands out
    l1s,          \* l1s table: id -> [name, subnet, status]
    nextL1,       \* next identity value of l1s.id
    validators,   \* l1_validators table: set of rows <<l1 id, node id, serial>>
    tasks,        \* goroutines: provisionNode, reconfigureNode, and API calls
                  \* between their pre-checks and their write
    hpoll,        \* the health poller's cycle: position and ListNodes snapshot
    hostpoll,     \* the host poller's cycle: position and hosts snapshot
    restarts,     \* how many times the process was started again
    mainpc,       \* where main is: serving, stopping, stopped, closed
    events,       \* events table, as followed by SpecEvents; the rows that a
                  \* step of an operation inserts are in emitted
    ret,          \* what the API call made in the latest step returned
    emitted       \* the events rows inserted by the latest step

vars == <<hosts, nextHost, clients, up, nodes, nextNode, containers, nextCID,
          l1s, nextL1, validators, tasks, hpoll, hostpoll, restarts,
          mainpc, events, ret, emitted>>

dbVars == <<hosts, nextHost, nodes, nextNode, l1s, nextL1, validators>>

\* --------------------------------------------------------------- helpers
\* ret: the operation, its error ("" for none) and, for DeleteNode, what the
\* runtime answered to the container removal
NoRet == [op |-> "none", err |-> "", res |-> ""]
Returns(op, err) == ret' = [op |-> op, err |-> err, res |-> ""]
ReturnsWith(op, err, res) == ret' = [op |-> op, err |-> err, res |-> res]
Ev(type, target) == <<type, target>>

\* docker.AvagoParams.ContainerName: "avax-" + p.Name
ContainerName(name) == <<"avax", name>>

IdleTask == [kind |-> "idle", pc |-> "", node |-> 0, name |-> "", host |-> 0,
             m |-> NoClient, closed |-> FALSE, port |-> 0, oldcid |-> NoCID,
             cid |-> NoCID, subs |-> {}, l1 |-> 0]

IdleHealth == [pc |-> "idle", todo |-> <<>>]
IdleHosts == [pc |-> "idle", todo |-> <<>>]

\* Manager.clientFor
\* a lookup that falls back to the local client
clientOrLocal(h) == IF h \in DOMAIN clients THEN clients[h] ELSE "local"
clientFor(h) == IF h \in DOMAIN clients THEN clients[h] ELSE NoClient

Up(m) == m = "local" \/ (m \in Addrs /\ up[m])

NodeIDs == DOMAIN nodes
\* a name check that never finds the name
NameNeverTaken(name) == FALSE
\* SELECT EXISTS(SELECT 1 FROM nodes WHERE name=$1)
NameTaken(name) == \E n \in NodeIDs : nodes[n].name = name
\* a staking-port check that counts stopped and failed nodes too
PortInUseAnyStatus(h, port) ==
    \E n \in NodeIDs : nodes[n].host = h /\ nodes[n].port = port
\* the staking-port check of CreateNode
PortInUse(h, port) ==
    \E n \in NodeIDs : /\ nodes[n].host = h
                       /\ nodes[n].port = port
                       /\ nodes[n].status \notin {"stopped", "failed"}

\* UPDATE nodes SET status=... WHERE id=n (no row, no change)
SetStatus(ns, n, s) ==
    IF n \in DOMAIN ns THEN [ns EXCEPT ![n].status = s] ELSE ns
\* a task that does not record the container it created
CIDNotRecorded(ns, n, c) == ns
\* UPDATE nodes SET container_id=... WHERE id=n
SetCID(ns, n, c) ==
    IF n \in DOMAIN ns THEN [ns EXCEPT ![n].cid = c] ELSE ns

\* the lowest free goroutine slot
FreeSlots == {i \in 1..MaxTasks : tasks[i].kind = "idle"}
FreeSlot == CHOOSE i \in FreeSlots : \A j \in FreeSlots : i <= j

\* ------------------------------------------------- the container runtime
OnMachine(cs, m) == {c \in DOMAIN cs : cs[c].m = m}
PortBusy(cs, m, c) ==
    \E d \in OnMachine(cs, m) : d # c /\ cs[d].state = "running" /\ cs[d].port = cs[c].port

\* Client.ContainerCreate: the runtime refuses a name already in use
CanCreate(cs, m, name) ==
    /\ Up(m)
    /\ \A d \in OnMachine(cs, m) : cs[d].name # name
DoCreate(cs, m, name, port, subs, c) ==
    [d \in DOMAIN cs \cup {c} |->
        IF d = c THEN [m |-> m, name |-> name, state |-> "created", port |-> port, subs |-> subs]
        ELSE cs[d]]

\* Client.ContainerStart: fails on a missing container or a bound host port
CanStart(cs, m, c) ==
    /\ Up(m)
    /\ c \in OnMachine(cs, m)
    /\ (cs[c].state = "running" \/ ~PortBusy(cs, m, c))
DoStart(cs, c) == [cs EXCEPT ![c].state = "running"]

\* Client.ContainerStop
CanStop(cs, m, c) == Up(m) /\ c \in OnMachine(cs, m)
DoStop(cs, c) ==
    IF cs[c].state \in {"running", "restarting", "paused"}
    THEN [cs EXCEPT ![c].state = "exited"] ELSE cs
StopIfCan(cs, m, c) == IF CanStop(cs, m, c) THEN DoStop(cs, c) ELSE cs

\* Client.ContainerRemove (Force): "ok", "No such container" or another error
RemoveResult(cs, m, c) ==
    IF ~Up(m) THEN "unreachable"
    ELSE IF c \notin OnMachine(cs, m) THEN "No such container"
    ELSE "ok"
DoRemove(cs, c) == [d \in DOMAIN cs \ {c} |-> cs[d]]
\* a removal check without the "No such container" exemption
RemoveSucceeded(res) == res = "ok"
\* DeleteNode and reconfigureNode go on after a removal that succeeded or
\* whose error contains "No such container"
RemoveTolerated(res) == res \in {"ok", "No such container"}

\* ------------------------------------------------------------------ Init
\* The state New leaves on an empty store: the local host row, its client.
Init ==
    /\ hosts = (LocalHostID :> [name |-> "local", ssh |-> "", status |-> "online"])
    /\ nextHost = LocalHostID + 1
    /\ clients = (LocalHostID :> "local")
    /\ up = [a \in Addrs |-> TRUE]
    /\ nodes = <<>>
    /\ nextNode = 1
    /\ containers = <<>>
    /\ nextCID = 1
    /\ l1s = <<>>
    /\ nextL1 = 1
    /\ validators = {}
    /\ tasks = [i \in 1..MaxTasks |-> IdleTask]
    /\ hpoll = IdleHealth
    /\ hostpoll = IdleHosts
    /\ restarts = 0
    /\ mainpc = "serving"
    /\ events = <<>>
    /\ ret = NoRet
    /\ emitted = <<>>

\* ------------------------------------------------- Node Lifecycle: Create
CreateNodeReqs == [name : NodeNames \cup {""}, port : ReqPorts, host : 0..MaxHosts]

\* Manager.CreateNode
CreateNode(req) ==
    LET port == IF req.port = 0 THEN DefaultStakingPort ELSE req.port
        hostID == IF req.host = 0 THEN LocalHostID ELSE req.host
        fail(err) == /\ Returns("CreateNode", err)
                     /\ emitted' = <<>>
                     /\ UNCHANGED <<nodes, nextNode, tasks>>
    IN  /\ IF req.name = "" THEN fail("name is required")
           ELSE IF NameTaken(req.name) THEN fail("already exists")
           ELSE IF clientFor(hostID) = NoClient THEN fail("host not connected")
           ELSE IF PortInUse(hostID, port) THEN fail("staking port already in use")
           ELSE IF hostID \notin DOMAIN hosts THEN fail("insert node")
           ELSE /\ nextNode <= MaxNodes
                /\ FreeSlots # {}
                /\ nodes' = (nextNode :> [name |-> req.name, host |-> hostID, port |-> port,
                                          cid |-> NoCID, status |-> "creating", nodeID |-> ""])
                             @@ nodes
                /\ nextNode' = nextNode + 1
                /\ tasks' = [tasks EXCEPT ![FreeSlot] =
                                [IdleTask EXCEPT !.kind = "prov", !.pc = "begin",
                                                 !.node = nextNode, !.name = req.name,
                                                 !.host = hostID, !.port = port]]
                /\ Returns("CreateNode", "")
                /\ emitted' = <<Ev("node.creating", req.name)>>
        /\ UNCHANGED <<hosts, nextHost, clients, up, containers, nextCID, l1s, nextL1,
                       validators, hpoll, hostpoll, restarts, mainpc, events>>

\* ------------------------------------------------ provisionNode (a task)
\* the setStatus closure of provisionNode: the UPDATE and the event
ProvSetStatus(i, status) ==
    /\ nodes' = SetStatus(nodes, tasks[i].node, status)
    /\ emitted' = <<Ev("node." \o status, tasks[i].name)>>

\* dc := m.clientFor(hostID); a nil client ends the task
ProvBegin(i) ==
    /\ tasks[i].kind = "prov" /\ tasks[i].pc = "begin"
    /\ tasks' = [tasks EXCEPT ![i] =
                    IF clientFor(tasks[i].host) = NoClient THEN IdleTask
                    ELSE [@ EXCEPT !.pc = "pull", !.m = clientFor(tasks[i].host)]]
    /\ ret' = NoRet /\ emitted' = <<>>
    /\ UNCHANGED <<dbVars, clients, up, containers, nextCID, hpoll, hostpoll, restarts, mainpc, events>>

\* dc.PullImage: the pull succeeds or fails (always fails on a dead runtime)
ProvPull(i) ==
    /\ tasks[i].kind = "prov" /\ tasks[i].pc = "pull"
    /\ \E ok \in {b \in BOOLEAN : b => Up(tasks[i].m)} :
          IF ok
          THEN /\ tasks' = [tasks EXCEPT ![i].pc = "create"]
               /\ emitted' = <<>> /\ UNCHANGED nodes
          ELSE /\ tasks' = [tasks EXCEPT ![i] = IdleTask]
               /\ ProvSetStatus(i, "failed")
    /\ ret' = NoRet
    /\ UNCHANGED <<hosts, nextHost, nextNode, l1s, nextL1, validators, clients, up,
                   containers, nextCID, hpoll, hostpoll, restarts, mainpc, events>>

\* dc.ContainerCreate, then UPDATE nodes SET container_id
ProvCreate(i) ==
    /\ tasks[i].kind = "prov" /\ tasks[i].pc = "create"
    /\ IF CanCreate(containers, tasks[i].m, ContainerName(tasks[i].name))
       THEN /\ nextCID <= MaxContainers
            /\ containers' = DoCreate(containers, tasks[i].m, ContainerName(tasks[i].name),
                                       tasks[i].port, {}, nextCID)
            /\ nextCID' = nextCID + 1
            /\ nodes' = SetCID(nodes, tasks[i].node, nextCID)
            /\ tasks' = [tasks EXCEPT ![i].pc = "start", ![i].cid = nextCID]
            /\ emitted' = <<>>
       ELSE /\ tasks' = [tasks EXCEPT ![i] = IdleTask]
            /\ ProvSetStatus(i, "failed")
            /\ UNCHANGED <<containers, nextCID>>
    /\ ret' = NoRet
    /\ UNCHANGED <<hosts, nextHost, nextNode, l1s, nextL1, validators, clients, up,
                   hpoll, hostpoll, restarts, mainpc, events>>

\* dc.ContainerStart, then setStatus("running") or setStatus("failed")
ProvStart(i) ==
    /\ tasks[i].kind = "prov" /\ tasks[i].pc = "start"
    /\ IF CanStart(containers, tasks[i].m, tasks[i].cid)
       THEN /\ containers' = DoStart(containers, tasks[i].cid)
            /\ ProvSetStatus(i, "running")
       ELSE /\ ProvSetStatus(i, "failed")
            /\ UNCHANGED containers
    /\ tasks' = [tasks EXCEPT ![i] = IdleTask]
    /\ ret' = NoRet
    /\ UNCHANGED <<hosts, nextHost, nextNode, l1s, nextL1, validators, clients, up,
                   nextCID, hpoll, hostpoll, restarts, mainpc, events>>

provisionNode(i) == ProvBegin(i) \/ ProvPull(i) \/ ProvCreate(i) \/ ProvStart(i)


\* --------------------------------------- Node Lifecycle: Start/Stop/Delete
\* a Start/Stop that does not look at the stored status
NeverInStatus(n, target) == FALSE
\* Manager.StartNode / StopNode: node.Status == "running" / "stopped"
AlreadyInStatus(n, target) == nodes[n].status = target

\* Manager.StartNode
StartNode(n) ==
    LET fail(err) == /\ Returns("StartNode", err) /\ emitted' = <<>>
                     /\ UNCHANGED <<nodes, containers>>
    IN  /\ IF n \notin NodeIDs THEN fail("get node")
           ELSE IF nodes[n].cid = NoCID THEN fail("no container")
           ELSE IF AlreadyInStatus(n, "running") THEN fail("already running")
           ELSE IF clientFor(nodes[n].host) = NoClient THEN fail("host not connected")
           ELSE IF ~CanStart(containers, clientFor(nodes[n].host), nodes[n].cid)
                THEN fail("start container")
           ELSE /\ containers' = DoStart(containers, nodes[n].cid)
                /\ nodes' = SetStatus(nodes, n, "running")
                /\ Returns("StartNode", "")
                /\ emitted' = <<Ev("node.started", nodes[n].name)>>
        /\ UNCHANGED <<hosts, nextHost, nextNode, l1s, nextL1, validators, clients, up,
                       nextCID, tasks, hpoll, hostpoll, restarts, mainpc, events>>

\* Manager.StopNode
StopNode(n) ==
    LET fail(err) == /\ Returns("StopNode", err) /\ emitted' = <<>>
                     /\ UNCHANGED <<nodes, containers>>
    IN  /\ IF n \notin NodeIDs THEN fail("get node")
           ELSE IF nodes[n].cid = NoCID THEN fail("no container")
           ELSE IF AlreadyInStatus(n, "stopped") THEN fail("already stopped")
           ELSE IF clientFor(nodes[n].host) = NoClient THEN fail("host not connected")
           ELSE IF ~CanStop(containers, clientFor(nodes[n].host), nodes[n].cid)
                THEN fail("stop container")
           ELSE /\ containers' = DoStop(containers, nodes[n].cid)
                /\ nodes' = SetStatus(nodes, n, "stopped")
                /\ Returns("StopNode", "")
                /\ emitted' = <<Ev("node.stopped", nodes[n].name)>>
        /\ UNCHANGED <<hosts, nextHost, nextNode, l1s, nextL1, validators, clients, up,
                       nextCID, tasks, hpoll, hostpoll, restarts, mainpc, events>>

\* an l1_validators table whose node_id references nothing
NoNodeReference(n) == FALSE
\* DELETE FROM nodes WHERE id=n: l1_validators.node_id REFERENCES nodes(id)
NodeReferenced(n) == \E v \in validators : v[2] = n
DropNode(ns, n) == [k \in DOMAIN ns \ {n} |-> ns[k]]

\* Manager.DeleteNode
DeleteNode(n) ==
    LET m == clientFor(nodes[n].host)
        c == nodes[n].cid
        stopped == StopIfCan(containers, m, c)
        res == IF c = NoCID THEN "" ELSE RemoveResult(stopped, m, c)
        fail(err, r) == /\ ReturnsWith("DeleteNode", err, r) /\ emitted' = <<>>
                        /\ UNCHANGED nodes
    IN  /\ IF n \notin NodeIDs THEN fail("get node", "") /\ UNCHANGED containers
           ELSE IF c # NoCID /\ m = NoClient
                THEN fail("host not connected", "") /\ UNCHANGED containers
           ELSE IF res # "" /\ ~RemoveTolerated(res)
                THEN fail("remove container", res) /\ containers' = stopped
           ELSE /\ containers' = IF res = "ok" THEN DoRemove(stopped, c) ELSE containers
                /\ IF NodeReferenced(n)
                   THEN fail("delete node row", res)
                   ELSE /\ nodes' = DropNode(nodes, n)
                        /\ ReturnsWith("DeleteNode", "", res)
                        /\ emitted' = <<Ev("node.deleted", nodes[n].name)>>
        /\ UNCHANGED <<hosts, nextHost, nextNode, l1s, nextL1, validators, clients, up,
                       nextCID, tasks, hpoll, hostpoll, restarts, mainpc, events>>

\* ---------------------------------------------------------- Host Registry
\* Manager.unregisterClient: the client is closed and dropped from the map;
\* a task that obtained it earlier now holds a closed client
unregisterClient(cl, h) == [k \in DOMAIN cl \ {h} |-> cl[k]]
HoldersClosed(ts, h) ==
    [i \in DOMAIN ts |->
        IF ts[i].kind # "idle" /\ ts[i].host = h /\ ts[i].m # NoClient /\ h \in DOMAIN clients
        THEN [ts[i] EXCEPT !.closed = TRUE] ELSE ts[i]]
\* Manager.registerClient
registerClient(cl, h, m) == (h :> m) @@ cl

HostIDs == DOMAIN hosts
\* a hosts table in which no name is ever found taken
NoHostNameTaken(name) == FALSE
\* SELECT EXISTS(SELECT 1 FROM hosts WHERE name=$1)
HostNameTaken(name) == \E h \in HostIDs : hosts[h].name = name
SetHostStatus(hs, h, s) ==
    IF h \in DOMAIN hs THEN [hs EXCEPT ![h].status = s] ELSE hs

AddHostReqs == [name : RemoteHostNames \cup {"local", ""}, ssh : Addrs]

\* Manager.AddHost
AddHost(req) ==
    LET fail(err) == /\ Returns("AddHost", err) /\ emitted' = <<>>
                     /\ UNCHANGED <<hosts, nextHost, clients>>
    IN  /\ IF req.name = "" THEN fail("name is required")
           ELSE IF HostNameTaken(req.name) THEN fail("already exists")
           ELSE IF ~Up(req.ssh) THEN fail("docker ping")
           ELSE /\ nextHost <= MaxHosts
                /\ hosts' = (nextHost :> [name |-> req.name, ssh |-> req.ssh,
                                          status |-> "online"]) @@ hosts
                /\ nextHost' = nextHost + 1
                /\ clients' = registerClient(clients, nextHost, req.ssh)
                /\ Returns("AddHost", "")
                /\ emitted' = <<Ev("host.added", req.name)>>
        /\ UNCHANGED <<nodes, nextNode, l1s, nextL1, validators, up, containers, nextCID,
                       tasks, hpoll, hostpoll, restarts, mainpc, events>>

NodesOnHost(h) == {n \in NodeIDs : nodes[n].host = h}

\* Manager.RemoveHost
RemoveHost(h) ==
    LET fail(err) == /\ Returns("RemoveHost", err) /\ emitted' = <<>>
                     /\ UNCHANGED <<hosts, clients, tasks>>
    IN  /\ IF h = LocalHostID THEN fail("cannot remove the local host")
           ELSE IF NodesOnHost(h) # {} THEN fail("host has nodes")
           ELSE IF h \notin HostIDs THEN fail("get host")
           ELSE /\ clients' = unregisterClient(clients, h)
                /\ tasks' = HoldersClosed(tasks, h)
                /\ hosts' = [k \in HostIDs \ {h} |-> hosts[k]]
                /\ Returns("RemoveHost", "")
                /\ emitted' = <<Ev("host.removed", hosts[h].name)>>
        /\ UNCHANGED <<nextHost, nodes, nextNode, l1s, nextL1, validators, up, containers,
                       nextCID, hpoll, hostpoll, restarts, mainpc, events>>

\* ------------------------------------------------------------ Host Poller
RECURSIVE SeqOfSet(_)
\* the rows of a query in ascending id order
SeqOfSet(S) ==
    IF S = {} THEN <<>>
    ELSE LET x == CHOOSE y \in S : \A z \in S : y <= z
         IN  <<x>> \o SeqOfSet(S \ {x})

\* the remote hosts that connectRemoteHosts reads: those with status online
OnlineRemoteHosts == {h \in HostIDs : hosts[h].ssh # "" /\ hosts[h].status = "online"}

\* the rows with ssh_addr != ''
RemoteHosts == {h \in HostIDs : hosts[h].ssh # ""}

\* pollHosts: SELECT id, name, ssh_addr, status FROM hosts WHERE ssh_addr != ''
PollHostsBegin ==
    /\ hostpoll.pc = "idle"
    /\ hostpoll' = [pc |-> "loop",
                    todo |-> [i \in 1..Cardinality(RemoteHosts) |->
                                LET h == SeqOfSet(RemoteHosts)[i]
                                IN  [id |-> h, name |-> hosts[h].name,
                                     ssh |-> hosts[h].ssh, status |-> hosts[h].status]]]
    /\ ret' = NoRet /\ emitted' = <<>>
    /\ UNCHANGED <<dbVars, clients, up, containers, nextCID, tasks, hpoll, restarts, mainpc, events>>

\* a reconnect that leaves the old client registered when it fails
ReconnectKeepingClient(cl, h, ssh) ==
    IF Up(ssh) THEN registerClient(unregisterClient(cl, h), h, ssh) ELSE cl

\* pollHosts, "Try to reconnect": unregisterClient, then NewSSH and Ping, and
\* registerClient when both succeed
Reconnect(cl, h, ssh) ==
    IF Up(ssh) THEN registerClient(unregisterClient(cl, h), h, ssh)
    ELSE unregisterClient(cl, h)

\* pollHosts: one iteration of the loop over the hosts read.  The ping through
\* the registered client fails when the runtime is down, and may fail on a
\* stale connection; the ping through a fresh connection fails only when the
\* runtime is down.
PollHostsStep ==
    /\ hostpoll.pc = "loop"
    /\ IF hostpoll.todo = <<>>
       THEN /\ hostpoll' = IdleHosts
            /\ emitted' = <<>>
            /\ UNCHANGED <<hosts, clients, tasks>>
       ELSE LET h == Head(hostpoll.todo)
                dc == clientFor(h.id)
                gone == IF h.status # "unreachable"
                        THEN <<Ev("host.unreachable", h.name)>> ELSE <<>>
            IN  /\ hostpoll' = [hostpoll EXCEPT !.todo = Tail(@)]
                /\ \E pingOK \in {b \in BOOLEAN : b => (dc # NoClient /\ Up(dc))} :
                   IF pingOK
                   THEN /\ hosts' = IF h.status # "online"
                                    THEN SetHostStatus(hosts, h.id, "online") ELSE hosts
                        /\ emitted' = IF h.status # "online"
                                      THEN <<Ev("host.online", h.name)>> ELSE <<>>
                        /\ UNCHANGED <<clients, tasks>>
                   ELSE \* unreachable: mark, unregister, try to reconnect
                        /\ tasks' = HoldersClosed(tasks, h.id)
                        /\ clients' = Reconnect(clients, h.id, h.ssh)
                        /\ IF Up(h.ssh)
                           THEN /\ hosts' = SetHostStatus(hosts, h.id, "online")
                                /\ emitted' = gone \o <<Ev("host.online", h.name)>>
                           ELSE /\ hosts' = IF h.status # "unreachable"
                                            THEN SetHostStatus(hosts, h.id, "unreachable")
                                            ELSE hosts
                                /\ emitted' = gone
    /\ ret' = NoRet
    /\ UNCHANGED <<nextHost, nodes, nextNode, l1s, nextL1, validators, up, containers,
                   nextCID, hpoll, restarts, mainpc, events>>

pollHosts == PollHostsBegin \/ PollHostsStep

\* ---------------------------------------------------------- Health Poller
MachineOf(h) == IF hosts[h].ssh = "" THEN "local" ELSE hosts[h].ssh

\* checkNodeHealth asks the container named avax-<name>: only a running one
\* on a reachable machine can answer healthy
CanAnswer(name, h) ==
    /\ h \in HostIDs
    /\ Up(MachineOf(h))
    /\ \E c \in OnMachine(containers, MachineOf(h)) :
          containers[c].name = ContainerName(name) /\ containers[c].state = "running"

\* info.State.Running of ContainerInspect; an error counts as not running
InspectRunning(m, c) ==
    /\ Up(m)
    /\ c \in OnMachine(containers, m)
    /\ containers[c].state \in {"running", "restarting", "paused"}

\* a pollHealth that takes a missing client for a container that is not running
HealthNewStatusNilAsStopped(node, healthy) ==
    IF healthy /\ node.status = "unhealthy" THEN "running"
    ELSE IF ~healthy /\ node.status = "running"
         THEN IF clientFor(node.host) = NoClient
                 \/ ~InspectRunning(clientFor(node.host), node.cid) THEN "stopped"
              ELSE "unhealthy"
    ELSE node.status

\* a pollHealth that inspects the container of an unhealthy node as well
HealthNewStatusInspectingUnhealthy(node, healthy) ==
    IF healthy /\ node.status = "unhealthy" THEN "running"
    ELSE IF ~healthy /\ node.status \in {"running", "unhealthy"}
         THEN IF clientFor(node.host) = NoClient THEN "unhealthy"
              ELSE IF ~InspectRunning(clientFor(node.host), node.cid) THEN "stopped"
              ELSE "unhealthy"
    ELSE node.status

\* the status pollHealth derives for one node of its snapshot
HealthNewStatus(node, healthy) ==
    IF healthy /\ node.status = "unhealthy" THEN "running"
    ELSE IF ~healthy /\ node.status = "running"
         THEN IF clientFor(node.host) = NoClient THEN "unhealthy"
              ELSE IF ~InspectRunning(clientFor(node.host), node.cid) THEN "stopped"
              ELSE "unhealthy"
    ELSE node.status

Polled(n) == nodes[n].status \in {"running", "unhealthy"} /\ nodes[n].cid # NoCID

\* pollHealth: ListNodes, keeping the nodes the loop does not skip
PollHealthBegin ==
    /\ hpoll.pc = "idle"
    /\ LET ids == SeqOfSet({n \in NodeIDs : Polled(n)})
       IN  hpoll' = [pc |-> "loop",
                     todo |-> [i \in 1..Len(ids) |->
                                 [id |-> ids[i], name |-> nodes[ids[i]].name,
                                  host |-> nodes[ids[i]].host,
                                  status |-> nodes[ids[i]].status,
                                  cid |-> nodes[ids[i]].cid,
                                  nodeID |-> nodes[ids[i]].nodeID]]]
    /\ ret' = NoRet /\ emitted' = <<>>
    /\ UNCHANGED <<dbVars, clients, up, containers, nextCID, tasks, hostpoll, restarts, mainpc, events>>

\* a poller that asks every healthy node for its identity
WantsNodeIDWhenHealthy(node, healthy) == healthy
\* pollHealth: if healthy && node.NodeID == ""
WantsNodeID(node, healthy) == healthy /\ node.nodeID = ""

\* fetchAndStoreNodeID: UPDATE nodes SET node_id
SetNodeID(ns, n, id) ==
    IF n \in DOMAIN ns THEN [ns EXCEPT ![n].nodeID = id] ELSE ns

\* pollHealth: one iteration of the loop over the nodes read
PollHealthStep ==
    /\ hpoll.pc = "loop"
    /\ IF hpoll.todo = <<>>
       THEN /\ hpoll' = IdleHealth /\ emitted' = <<>> /\ UNCHANGED nodes
       ELSE LET node == Head(hpoll.todo)
            IN  /\ hpoll' = [hpoll EXCEPT !.todo = Tail(@)]
                /\ \E healthy \in {b \in BOOLEAN : b => CanAnswer(node.name, node.host)} :
                   \E fetched \in {b \in BOOLEAN : b => WantsNodeID(node, healthy)} :
                     LET new == HealthNewStatus(node, healthy)
                         changed == new # node.status
                         ns1 == IF changed THEN SetStatus(nodes, node.id, new) ELSE nodes
                     IN  /\ nodes' = IF fetched THEN SetNodeID(ns1, node.id, "NodeID-1")
                                     ELSE ns1
                         /\ emitted' = (IF changed THEN <<Ev("node.health", node.name)>>
                                        ELSE <<>>)
                                       \o (IF fetched
                                           THEN <<Ev("node.identified", node.name)>>
                                           ELSE <<>>)
    /\ ret' = NoRet
    /\ UNCHANGED <<hosts, nextHost, nextNode, l1s, nextL1, validators, clients, up,
                   containers, nextCID, tasks, hostpoll, restarts, mainpc, events>>

pollHealth == PollHealthBegin \/ PollHealthStep

\* ------------------------------------------------------- the environment
\* a remote runtime stops or starts answering
EnvReach(a) ==
    /\ up' = [up EXCEPT ![a] = ~@]
    /\ ret' = NoRet /\ emitted' = <<>>
    /\ UNCHANGED <<dbVars, clients, containers, nextCID, tasks, hpoll, hostpoll, restarts, mainpc, events>>

\* a container's process exits by itself
EnvExit(c) ==
    /\ c \in DOMAIN containers /\ containers[c].state = "running"
    /\ containers' = [containers EXCEPT ![c].state = "exited"]
    /\ ret' = NoRet /\ emitted' = <<>>
    /\ UNCHANGED <<dbVars, clients, up, nextCID, tasks, hpoll, hostpoll, restarts, mainpc, events>>

\* a container is removed out-of-band
EnvRemove(c) ==
    /\ c \in DOMAIN containers
    /\ containers' = DoRemove(containers, c)
    /\ ret' = NoRet /\ emitted' = <<>>
    /\ UNCHANGED <<dbVars, clients, up, nextCID, tasks, hpoll, hostpoll, restarts, mainpc, events>>


\* -------------------------------------------------- L1/Validator Coordinator
L1IDs == DOMAIN l1s
L1NameTaken(name) == \E l \in L1IDs : l1s[l].name = name
CreateL1Reqs == [name : L1Names \cup {""}, subnet : SubnetIDs \cup {""}]

\* a CreateL1 that leaves the status to the column default
L1StatusDefault(subnet) == "pending"

\* CreateL1: status := "pending"; if req.SubnetID != "" { status = "configured" }
L1Status(subnet) == IF subnet # "" THEN "configured" ELSE "pending"

\* Manager.CreateL1
CreateL1(req) ==
    LET fail(err) == /\ Returns("CreateL1", err) /\ emitted' = <<>>
                     /\ UNCHANGED <<l1s, nextL1>>
    IN  /\ IF req.name = "" THEN fail("name is required")
           ELSE IF L1NameTaken(req.name) THEN fail("already exists")
           ELSE /\ nextL1 <= MaxL1s
                /\ l1s' = (nextL1 :> [name |-> req.name, subnet |-> req.subnet,
                                      status |-> L1Status(req.subnet)]) @@ l1s
                /\ nextL1' = nextL1 + 1
                /\ Returns("CreateL1", "")
                /\ emitted' = <<Ev("l1.created", req.name)>>
        /\ UNCHANGED <<hosts, nextHost, nodes, nextNode, validators, clients, up,
                       containers, nextCID, tasks, hpoll, hostpoll, restarts, mainpc, events>>

ValidatorsOf(l) == {v \in validators : v[1] = l}

\* Manager.DeleteL1
DeleteL1(l) ==
    LET fail(err) == /\ Returns("DeleteL1", err) /\ emitted' = <<>> /\ UNCHANGED l1s
    IN  /\ IF l \notin L1IDs THEN fail("L1 not found")
           ELSE IF ValidatorsOf(l) # {} THEN fail("L1 has validators")
           ELSE /\ l1s' = [k \in L1IDs \ {l} |-> l1s[k]]
                /\ Returns("DeleteL1", "")
                /\ emitted' = <<Ev("l1.deleted", l1s[l].name)>>
        /\ UNCHANGED <<hosts, nextHost, nodes, nextNode, nextL1, validators, clients, up,
                       containers, nextCID, tasks, hpoll, hostpoll, restarts, mainpc, events>>

\* a trigger that ignores the subnet id
AlwaysTriggered(subnet) == TRUE
\* SELECT EXISTS(SELECT 1 FROM l1_validators WHERE l1_id=$1 AND node_id=$2)
Assigned(l, n) == \E v \in validators : v[1] = l /\ v[2] = n
\* an l1_validators table without its UNIQUE constraint
NoPairConstraint(l, n) == FALSE
\* UNIQUE(l1_id, node_id): the pair a new row may not repeat
PairConstraint(l, n) == \E v \in validators : v[1] = l /\ v[2] = n
\* the identity of a new l1_validators row: nothing reads it, so rows are
\* told apart by a serial number within their pair
FreshValidatorID(l, n) ==
    1 + Cardinality({v \in validators : v[1] = l /\ v[2] = n})

\* "Reconfigure node container if L1 has a subnet_id"
ReconfigureTriggered(subnet) == subnet # ""

\* go m.reconfigureNode(nodeID)
SpawnReconfigure(n) ==
    [tasks EXCEPT ![FreeSlot] = [IdleTask EXCEPT !.kind = "reconf", !.pc = "begin",
                                                  !.node = n]]

\* Manager.AddValidator
AddValidator(l, n) ==
    LET fail(err) == /\ Returns("AddValidator", err) /\ emitted' = <<>>
                     /\ UNCHANGED <<validators, tasks>>
    IN  /\ IF l \notin L1IDs THEN fail("L1 not found")
           ELSE IF n \notin NodeIDs THEN fail("node not found")
           ELSE IF Assigned(l, n) THEN fail("already a validator")
           ELSE /\ validators' = validators \cup {<<l, n, FreshValidatorID(l, n)>>}
                /\ Returns("AddValidator", "")
                /\ emitted' = <<Ev("l1.validator.added", l1s[l].name)>>
                /\ IF ReconfigureTriggered(l1s[l].subnet)
                   THEN FreeSlots # {} /\ tasks' = SpawnReconfigure(n)
                   ELSE UNCHANGED tasks
        /\ UNCHANGED <<hosts, nextHost, nodes, nextNode, l1s, nextL1, clients, up,
                       containers, nextCID, hpoll, hostpoll, restarts, mainpc, events>>

\* a RemoveValidator that sets an L1 back to pending with its last assignment
L1sPendingWhenEmptied(l, n) ==
    IF l \in L1IDs /\ {v[2] : v \in ValidatorsOf(l)} = {n}
    THEN [l1s EXCEPT ![l].status = "pending"] ELSE l1s

\* the l1s table after RemoveValidator: it reads the row and writes nothing
RemoveValidatorL1s(l, n) == l1s

\* a DELETE that matches on the node alone
RowsOfNode(l, n) == {v \in validators : v[2] = n}
\* DELETE FROM l1_validators WHERE l1_id=$1 AND node_id=$2: the rows affected
RowsDeleted(l, n) == {v \in validators : v[1] = l /\ v[2] = n}

\* Manager.RemoveValidator
RemoveValidator(l, n) ==
    LET fail(err) == /\ Returns("RemoveValidator", err) /\ emitted' = <<>>
                     /\ UNCHANGED <<validators, tasks>>
    IN  /\ IF l \notin L1IDs THEN fail("L1 not found")
           ELSE IF RowsDeleted(l, n) = {} THEN fail("validator assignment not found")
           ELSE /\ validators' = validators \ RowsDeleted(l, n)
                /\ Returns("RemoveValidator", "")
                /\ emitted' = <<Ev("l1.validator.removed", l1s[l].name)>>
                /\ IF ReconfigureTriggered(l1s[l].subnet)
                   THEN FreeSlots # {} /\ tasks' = SpawnReconfigure(n)
                   ELSE UNCHANGED tasks
        /\ l1s' = RemoveValidatorL1s(l, n)
        /\ UNCHANGED <<hosts, nextHost, nodes, nextNode, nextL1, clients, up,
                       containers, nextCID, hpoll, hostpoll, restarts, mainpc, events>>

\* Manager.subnetIDsForNode: SELECT DISTINCT l.subnet_id ... WHERE l.subnet_id != ''
subnetIDsForNode(n) ==
    {l1s[v[1]].subnet : v \in {w \in validators : w[2] = n}} \ {""}

\* ----------------------------------------------- reconfigureNode (a task)
\* a setFailed that logs the failure and leaves the status
ReconfLogFailure(i) ==
    /\ UNCHANGED nodes
    /\ tasks' = [tasks EXCEPT ![i] = IdleTask]
    /\ emitted' = <<Ev("node.failed", tasks[i].name)>>

\* the setFailed closure of reconfigureNode
ReconfSetFailed(i) ==
    /\ nodes' = SetStatus(nodes, tasks[i].node, "failed")
    /\ emitted' = <<Ev("node.failed", tasks[i].name)>>
    /\ tasks' = [tasks EXCEPT ![i] = IdleTask]

\* GetNode, clientFor, subnetIDsForNode, the event, UPDATE status='creating'
ReconfBegin(i) ==
    /\ tasks[i].kind = "reconf" /\ tasks[i].pc = "begin"
    /\ LET n == tasks[i].node
       IN  IF n \notin NodeIDs \/ clientFor(nodes[n].host) = NoClient
           THEN /\ tasks' = [tasks EXCEPT ![i] = IdleTask]
                /\ emitted' = <<>> /\ UNCHANGED nodes
           ELSE /\ tasks' = [tasks EXCEPT ![i] =
                               [@ EXCEPT !.pc = IF nodes[n].cid # NoCID THEN "remove"
                                               ELSE "create",
                                         !.name = nodes[n].name, !.host = nodes[n].host,
                                         !.m = clientFor(nodes[n].host),
                                         !.port = nodes[n].port, !.oldcid = nodes[n].cid,
                                         !.subs = subnetIDsForNode(n)]]
                /\ nodes' = SetStatus(nodes, n, "creating")
                /\ emitted' = <<Ev("node.reconfiguring", nodes[n].name)>>
    /\ ret' = NoRet
    /\ UNCHANGED <<hosts, nextHost, nextNode, l1s, nextL1, validators, clients, up,
                   containers, nextCID, hpoll, hostpoll, restarts, mainpc, events>>

\* ContainerStop (error ignored) and ContainerRemove of the container read
ReconfRemove(i) ==
    /\ tasks[i].kind = "reconf" /\ tasks[i].pc = "remove"
    /\ LET stopped == StopIfCan(containers, tasks[i].m, tasks[i].oldcid)
           res == RemoveResult(stopped, tasks[i].m, tasks[i].oldcid)
       IN  IF ~RemoveTolerated(res)
           THEN /\ containers' = stopped
                /\ ReconfSetFailed(i)
           ELSE /\ containers' = IF res = "ok" THEN DoRemove(stopped, tasks[i].oldcid)
                                 ELSE containers
                /\ tasks' = [tasks EXCEPT ![i].pc = "create"]
                /\ emitted' = <<>> /\ UNCHANGED nodes
    /\ ret' = NoRet
    /\ UNCHANGED <<hosts, nextHost, nextNode, l1s, nextL1, validators, clients, up,
                   nextCID, hpoll, hostpoll, restarts, mainpc, events>>

\* BuildContainerConfig with TrackSubnets, ContainerCreate, UPDATE container_id
ReconfCreate(i) ==
    /\ tasks[i].kind = "reconf" /\ tasks[i].pc = "create"
    /\ IF CanCreate(containers, tasks[i].m, ContainerName(tasks[i].name))
       THEN /\ nextCID <= MaxContainers
            /\ containers' = DoCreate(containers, tasks[i].m, ContainerName(tasks[i].name),
                                       tasks[i].port, tasks[i].subs, nextCID)
            /\ nextCID' = nextCID + 1
            /\ nodes' = SetCID(nodes, tasks[i].node, nextCID)
            /\ tasks' = [tasks EXCEPT ![i].pc = "start", ![i].cid = nextCID]
            /\ emitted' = <<>>
       ELSE /\ ReconfSetFailed(i)
            /\ UNCHANGED <<containers, nextCID>>
    /\ ret' = NoRet
    /\ UNCHANGED <<hosts, nextHost, nextNode, l1s, nextL1, validators, clients, up,
                   hpoll, hostpoll, restarts, mainpc, events>>

\* ContainerStart, then status 'running' and the node.reconfigured event
ReconfStart(i) ==
    /\ tasks[i].kind = "reconf" /\ tasks[i].pc = "start"
    /\ IF CanStart(containers, tasks[i].m, tasks[i].cid)
       THEN /\ containers' = DoStart(containers, tasks[i].cid)
            /\ nodes' = SetStatus(nodes, tasks[i].node, "running")
            /\ emitted' = <<Ev("node.reconfigured", tasks[i].name)>>
            /\ tasks' = [tasks EXCEPT ![i] = IdleTask]
       ELSE /\ ReconfSetFailed(i)
            /\ UNCHANGED containers
    /\ ret' = NoRet
    /\ UNCHANGED <<hosts, nextHost, nextNode, l1s, nextL1, validators, clients, up,
                   nextCID, hpoll, hostpoll, restarts, mainpc, events>>

reconfigureNode(i) == ReconfBegin(i) \/ ReconfRemove(i) \/ ReconfCreate(i) \/ ReconfStart(i)

\* ------------------------------------------------- Reconciliation Engine
\* the switch of reconcile over the observed container state
ReconcileStatusCreatedStopped(found, state) ==
    IF ~found THEN "stopped"
    ELSE IF state = "running" THEN "running"
    ELSE "stopped"

\* reconcile: the status for a container that is absent or in a given state
ReconcileStatus(found, state) ==
    IF ~found THEN "stopped"
    ELSE IF state = "running" THEN "running"
    ELSE IF state \in {"exited", "dead"} THEN "stopped"
    ELSE IF state \in {"created", "restarting"} THEN "creating"
    ELSE "stopped"

\* the hosts whose ListManagedContainers succeeded
HostsListed(cl) == {h \in DOMAIN cl : cl[h] # NoClient /\ Up(cl[h])}

\* a reconcile whose verdict on a missing container depends on the status read
ReconciledFromStatus(ns, cl, cs, n) ==
    IF ns[n].cid = NoCID \/ ns[n].host \notin HostsListed(cl) THEN ns[n].status
    ELSE LET named == {c \in OnMachine(cs, cl[ns[n].host]) :
                          cs[c].name = ContainerName(ns[n].name)}
         IN  IF named = {}
             THEN IF ns[n].status = "stopped" THEN "failed" ELSE "stopped"
             ELSE ReconcileStatus(TRUE, cs[CHOOSE c \in named : TRUE].state)

\* a reconcile that takes the containers of an unlisted host for gone
ReconciledUnlistedGone(ns, cl, cs, n) ==
    IF ns[n].cid = NoCID THEN ns[n].status
    ELSE IF ns[n].host \notin HostsListed(cl) THEN "stopped"
    ELSE LET named == {c \in OnMachine(cs, cl[ns[n].host]) :
                          cs[c].name = ContainerName(ns[n].name)}
         IN  IF named = {} THEN ReconcileStatus(FALSE, "")
             ELSE ReconcileStatus(TRUE, cs[CHOOSE c \in named : TRUE].state)

\* the status reconcile derives for node n, or its status when n is skipped
Reconciled(ns, cl, cs, n) ==
    IF ns[n].cid = NoCID \/ ns[n].host \notin HostsListed(cl) THEN ns[n].status
    ELSE LET named == {c \in OnMachine(cs, cl[ns[n].host]) :
                          cs[c].name = ContainerName(ns[n].name)}
         IN  IF named = {} THEN ReconcileStatus(FALSE, "")
             ELSE ReconcileStatus(TRUE, cs[CHOOSE c \in named : TRUE].state)

\* Manager.reconcile: the nodes table it leaves
reconcile(ns, cl, cs) ==
    [n \in DOMAIN ns |-> [ns[n] EXCEPT !.status = Reconciled(ns, cl, cs, n)]]

\* connectRemoteHosts: the online remote hosts that answer get a client
Connectable == {h \in RemoteHosts : hosts[h].status = "online" /\ Up(hosts[h].ssh)}
Unconnectable == {h \in RemoteHosts : hosts[h].status = "online" /\ ~Up(hosts[h].ssh)}

\* The process is started again: its goroutines are gone, and New registers
\* the local client, connects the remote hosts and reconciles.
Restart ==
    /\ restarts < MaxRestarts
    /\ restarts' = restarts + 1
    /\ mainpc' = "serving"
    /\ tasks' = [i \in 1..MaxTasks |-> IdleTask]
    /\ hpoll' = IdleHealth
    /\ hostpoll' = IdleHosts
    /\ LET cl == [h \in {LocalHostID} \cup Connectable |->
                    IF h = LocalHostID THEN "local" ELSE hosts[h].ssh]
       IN  /\ clients' = cl
           /\ hosts' = [h \in HostIDs |->
                          IF h \in Unconnectable
                          THEN [hosts[h] EXCEPT !.status = "unreachable"]
                          ELSE IF h = LocalHostID
                               THEN [hosts[h] EXCEPT !.status = "online"]
                               ELSE hosts[h]]
           /\ nodes' = reconcile(nodes, cl, containers)
    /\ ret' = NoRet /\ emitted' = <<>>
    /\ UNCHANGED <<nextHost, nextNode, l1s, nextL1, validators, up, containers, nextCID,
                   events>>

\* ---------------------------------------------------------------- shutdown
\* main, after the signal: StopHealthPoller, then CloseClients.

\* StopHealthPoller: close(m.stopPoller)
StopHealthPollerClose ==
    /\ mainpc = "serving"
    /\ mainpc' = "stopping"
    /\ ret' = NoRet /\ emitted' = <<>>
    /\ UNCHANGED <<dbVars, clients, up, containers, nextCID, tasks, hpoll, hostpoll,
                   restarts, events>>

\* the health poller's select takes case <-m.stopPoller.  With a tick pending
\* as well the select may take either case, so PollHealthBegin stays enabled.
HealthPollerReturn ==
    /\ mainpc # "serving"
    /\ hpoll.pc = "idle"
    /\ hpoll' = [pc |-> "exited", todo |-> <<>>]
    /\ ret' = NoRet /\ emitted' = <<>>
    /\ UNCHANGED <<dbVars, clients, up, containers, nextCID, tasks, hostpoll,
                   restarts, mainpc, events>>

\* the host poller's select takes case <-m.stopPoller
HostPollerReturn ==
    /\ mainpc # "serving"
    /\ hostpoll.pc = "idle"
    /\ hostpoll' = [pc |-> "exited", todo |-> <<>>]
    /\ ret' = NoRet /\ emitted' = <<>>
    /\ UNCHANGED <<dbVars, clients, up, containers, nextCID, tasks, hpoll,
                   restarts, mainpc, events>>

\* a wait group that only the health poller has joined
HealthPollerDone == hpoll.pc = "exited"

\* m.pollerWg.Wait(): both pollers did Add(1), both have done Done()
PollersDone == hpoll.pc = "exited" /\ hostpoll.pc = "exited"

\* StopHealthPoller: m.pollerWg.Wait() returns
StopHealthPollerReturn ==
    /\ mainpc = "stopping"
    /\ PollersDone
    /\ mainpc' = "stopped"
    /\ ret' = NoRet /\ emitted' = <<>>
    /\ UNCHANGED <<dbVars, clients, up, containers, nextCID, tasks, hpoll, hostpoll,
                   restarts, events>>

\* Manager.CloseClients: every remote client is closed; the map keeps them,
\* and a task that holds one now holds a closed client
CloseClients ==
    /\ mainpc = "stopped"
    /\ mainpc' = "closed"
    /\ tasks' = [i \in 1..MaxTasks |->
                    IF tasks[i].kind # "idle" /\ tasks[i].m \notin {NoClient, "local"}
                    THEN [tasks[i] EXCEPT !.closed = TRUE] ELSE tasks[i]]
    /\ ret' = NoRet /\ emitted' = <<>>
    /\ UNCHANGED <<dbVars, clients, up, containers, nextCID, hpoll, hostpoll, restarts,
                   events>>

\* -------------------------------------------------------------- Event log
EventTypes == {"host.added", "host.removed", "node.creating", "node.failed"}
EventTargets == NodeNames \cup RemoteHostNames

\* a logEvent that keeps the table to its latest rows
logEventKeepingLatest(tbl, type, target) ==
    IF Len(tbl) >= 2 THEN Append(Tail(tbl), Ev(type, target))
    ELSE Append(tbl, Ev(type, target))

\* Manager.logEvent: INSERT INTO events (event_type, target, message, details)
logEvent(tbl, type, target) == Append(tbl, Ev(type, target))

\* a call of logEvent, by whichever operation
LogEvent ==
    \E type \in EventTypes, target \in EventTargets :
        /\ Len(events) < MaxEvents
        /\ events' = logEvent(events, type, target)
        /\ UNCHANGED <<dbVars, clients, up, containers, nextCID, tasks, hpoll, hostpoll,
                       restarts, mainpc, ret, emitted>>

\* ------------------------------------------ API calls running concurrently
\* A call takes two steps when another call can run between its pre-checks
\* and its write: first the pre-checks, all passing, then the write under the
\* constraints of the schema.  (A call whose pre-check fails returns at once:
\* that is the one-step action above.)

\* a nodes table without UNIQUE on name
NoNameConstraint(name) == FALSE
\* nodes.name UNIQUE: the name a new row may not repeat
NameConstraint(name) == \E n \in NodeIDs : nodes[n].name = name

\* Manager.CreateNode up to its INSERT
CreateNodeCheck(req) ==
    LET port == IF req.port = 0 THEN DefaultStakingPort ELSE req.port
        hostID == IF req.host = 0 THEN LocalHostID ELSE req.host
    IN  /\ req.name # ""
        /\ ~NameTaken(req.name)
        /\ clientFor(hostID) # NoClient
        /\ ~PortInUse(hostID, port)
        /\ FreeSlots # {}
        /\ tasks' = [tasks EXCEPT ![FreeSlot] =
                        [IdleTask EXCEPT !.kind = "create", !.pc = "insert",
                                         !.name = req.name, !.host = hostID,
                                         !.port = port]]
        /\ ret' = NoRet /\ emitted' = <<>>
        /\ UNCHANGED <<dbVars, clients, up, containers, nextCID, hpoll, hostpoll, restarts, mainpc, events>>

\* Manager.CreateNode from its INSERT on: the row, the event, go provisionNode
CreateNodeInsert(i) ==
    /\ tasks[i].kind = "create"
    /\ IF NameConstraint(tasks[i].name) \/ tasks[i].host \notin HostIDs
       THEN /\ tasks' = [tasks EXCEPT ![i] = IdleTask]
            /\ Returns("CreateNode", "insert node")
            /\ emitted' = <<>>
            /\ UNCHANGED <<nodes, nextNode>>
       ELSE /\ nextNode <= MaxNodes
            /\ nodes' = (nextNode :> [name |-> tasks[i].name, host |-> tasks[i].host,
                                      port |-> tasks[i].port, cid |-> NoCID,
                                      status |-> "creating", nodeID |-> ""])
                         @@ nodes
            /\ nextNode' = nextNode + 1
            /\ tasks' = [tasks EXCEPT ![i] =
                            [IdleTask EXCEPT !.kind = "prov", !.pc = "begin",
                                             !.node = nextNode, !.name = tasks[i].name,
                                             !.host = tasks[i].host,
                                             !.port = tasks[i].port]]
            /\ Returns("CreateNode", "")
            /\ emitted' = <<Ev("node.creating", tasks[i].name)>>
    /\ UNCHANGED <<hosts, nextHost, clients, up, containers, nextCID, l1s, nextL1,
                   validators, hpoll, hostpoll, restarts, mainpc, events>>

\* a nodes table whose host_id references nothing
NoHostReference(h) == FALSE
\* nodes.host_id REFERENCES hosts(id): the host row a DELETE may not remove
HostReferenced(h) == \E n \in NodeIDs : nodes[n].host = h

\* Manager.RemoveHost up to unregisterClient
RemoveHostCheck(h) ==
    /\ h # LocalHostID
    /\ NodesOnHost(h) = {}
    /\ h \in HostIDs
    /\ FreeSlots # {}
    /\ tasks' = [tasks EXCEPT ![FreeSlot] =
                    [IdleTask EXCEPT !.kind = "rmhost", !.pc = "delete",
                                     !.host = h, !.name = hosts[h].name]]
    /\ ret' = NoRet /\ emitted' = <<>>
    /\ UNCHANGED <<dbVars, clients, up, containers, nextCID, hpoll, hostpoll, restarts, mainpc, events>>

\* Manager.RemoveHost from unregisterClient on: the DELETE and the event
RemoveHostDelete(i) ==
    /\ tasks[i].kind = "rmhost"
    /\ LET h == tasks[i].host
       IN  /\ clients' = unregisterClient(clients, h)
           /\ tasks' = [HoldersClosed(tasks, h) EXCEPT ![i] = IdleTask]
           /\ IF HostReferenced(h)
              THEN /\ Returns("RemoveHost", "delete host")
                   /\ emitted' = <<>>
                   /\ UNCHANGED hosts
              ELSE /\ hosts' = [k \in HostIDs \ {h} |-> hosts[k]]
                   /\ Returns("RemoveHost", "")
                   /\ emitted' = <<Ev("host.removed", tasks[i].name)>>
    /\ UNCHANGED <<nextHost, nodes, nextNode, l1s, nextL1, validators, up, containers,
                   nextCID, hpoll, hostpoll, restarts, mainpc, events>>

\* Manager.AddValidator up to its INSERT
AddValidatorCheck(l, n) ==
    /\ l \in L1IDs
    /\ n \in NodeIDs
    /\ ~Assigned(l, n)
    /\ FreeSlots # {}
    /\ tasks' = [tasks EXCEPT ![FreeSlot] =
                    [IdleTask EXCEPT !.kind = "addval", !.pc = "insert",
                                     !.l1 = l, !.node = n, !.name = l1s[l].name,
                                     !.subs = {l1s[l].subnet}]]
    /\ ret' = NoRet /\ emitted' = <<>>
    /\ UNCHANGED <<dbVars, clients, up, containers, nextCID, hpoll, hostpoll, restarts, mainpc, events>>

\* Manager.AddValidator from its INSERT on: the row, the event, and
\* go reconfigureNode for the subnet id read with the L1
AddValidatorInsert(i) ==
    /\ tasks[i].kind = "addval"
    /\ LET l == tasks[i].l1
           n == tasks[i].node
       IN  IF l \notin L1IDs \/ n \notin NodeIDs \/ PairConstraint(l, n)
           THEN /\ tasks' = [tasks EXCEPT ![i] = IdleTask]
                /\ Returns("AddValidator", "insert validator")
                /\ emitted' = <<>>
                /\ UNCHANGED validators
           ELSE /\ validators' = validators \cup {<<l, n, FreshValidatorID(l, n)>>}
                /\ Returns("AddValidator", "")
                /\ emitted' = <<Ev("l1.validator.added", tasks[i].name)>>
                /\ tasks' = [tasks EXCEPT ![i] =
                                IF \E sub \in tasks[i].subs : ReconfigureTriggered(sub)
                                THEN [IdleTask EXCEPT !.kind = "reconf", !.pc = "begin",
                                                      !.node = n]
                                ELSE IdleTask]
    /\ UNCHANGED <<hosts, nextHost, nodes, nextNode, l1s, nextL1, clients, up,
                   containers, nextCID, hpoll, hostpoll, restarts, mainpc, events>>

\* an l1_validators table whose l1_id references nothing
NoL1Reference(l) == FALSE
\* l1_validators.l1_id REFERENCES l1s(id): the L1 row a DELETE may not remove
L1Referenced(l) == \E v \in validators : v[1] = l

\* Manager.DeleteL1 up to its DELETE
DeleteL1Check(l) ==
    /\ l \in L1IDs
    /\ ValidatorsOf(l) = {}
    /\ FreeSlots # {}
    /\ tasks' = [tasks EXCEPT ![FreeSlot] =
                    [IdleTask EXCEPT !.kind = "rml1", !.pc = "delete",
                                     !.l1 = l, !.name = l1s[l].name]]
    /\ ret' = NoRet /\ emitted' = <<>>
    /\ UNCHANGED <<dbVars, clients, up, containers, nextCID, hpoll, hostpoll, restarts, mainpc, events>>

\* Manager.DeleteL1 from its DELETE on
DeleteL1Delete(i) ==
    /\ tasks[i].kind = "rml1"
    /\ tasks' = [tasks EXCEPT ![i] = IdleTask]
    /\ IF L1Referenced(tasks[i].l1)
       THEN /\ Returns("DeleteL1", "delete L1")
            /\ emitted' = <<>>
            /\ UNCHANGED l1s
       ELSE /\ l1s' = [k \in L1IDs \ {tasks[i].l1} |-> l1s[k]]
            /\ Returns("DeleteL1", "")
            /\ emitted' = <<Ev("l1.deleted", tasks[i].name)>>
    /\ UNCHANGED <<hosts, nextHost, nodes, nextNode, nextL1, validators, clients, up,
                   containers, nextCID, hpoll, hostpoll, restarts, mainpc, events>>

\* ------------------------------------------------------------ the actions
CreateNodeOp == \E req \in CreateNodeReqs : CreateNode(req)
StartNodeOp == \E n \in 1..MaxNodes : StartNode(n)
StopNodeOp == \E n \in 1..MaxNodes : StopNode(n)
DeleteNodeOp == \E n \in 1..MaxNodes : DeleteNode(n)
AddHostOp == \E req \in AddHostReqs : AddHost(req)
RemoveHostOp == \E h \in 1..MaxHosts : RemoveHost(h)
CreateL1Op == \E req \in CreateL1Reqs : CreateL1(req)
DeleteL1Op == \E l \in 1..MaxL1s : DeleteL1(l)
AddValidatorOp == \E l \in 1..MaxL1s, n \in 1..MaxNodes : AddValidator(l, n)
RemoveValidatorOp == \E l \in 1..MaxL1s, n \in 1..MaxNodes : RemoveValidator(l, n)
Provision == \E i \in 1..MaxTasks : provisionNode(i)
Reconfigure == \E i \in 1..MaxTasks : reconfigureNode(i)
EnvReachOp == \E a \in Addrs : EnvReach(a)
EnvExitOp == \E c \in 1..MaxContainers : EnvExit(c)
EnvRemoveOp == \E c \in 1..MaxContainers : EnvRemove(c)
CreateNodeCheckOp == \E req \in CreateNodeReqs : CreateNodeCheck(req)
CreateNodeInsertOp == \E i \in 1..MaxTasks : CreateNodeInsert(i)
RemoveHostCheckOp == \E h \in 1..MaxHosts : RemoveHostCheck(h)
RemoveHostDeleteOp == \E i \in 1..MaxTasks : RemoveHostDelete(i)
AddValidatorCheckOp == \E l \in 1..MaxL1s, n \in 1..MaxNodes : AddValidatorCheck(l, n)
AddValidatorInsertOp == \E i \in 1..MaxTasks : AddValidatorInsert(i)
DeleteL1CheckOp == \E l \in 1..MaxL1s : DeleteL1Check(l)
DeleteL1DeleteOp == \E i \in 1..MaxTasks : DeleteL1Delete(i)
\* an API call that returns no error
Succeeds == ret'.err = ""

Next ==
    \/ CreateNodeOp \/ StartNodeOp \/ StopNodeOp \/ DeleteNodeOp
    \/ AddHostOp \/ RemoveHostOp
    \/ CreateL1Op \/ DeleteL1Op \/ AddValidatorOp \/ RemoveValidatorOp
    \/ CreateNodeCheckOp \/ CreateNodeInsertOp
    \/ RemoveHostCheckOp \/ RemoveHostDeleteOp
    \/ AddValidatorCheckOp \/ AddValidatorInsertOp
    \/ DeleteL1CheckOp \/ DeleteL1DeleteOp
    \/ Provision \/ Reconfigure
    \/ StopHealthPollerClose \/ HealthPollerReturn \/ HostPollerReturn
    \/ StopHealthPollerReturn \/ CloseClients
    \/ pollHosts \/ pollHealth
    \/ EnvReachOp \/ EnvExitOp \/ EnvRemoveOp
    \/ Restart

Spec == Init /\ [][Next]_vars

\* Node lifecycle on the local and one remote host, every outcome of the calls
NextNodes ==
    \/ CreateNodeOp \/ StartNodeOp \/ StopNodeOp \/ DeleteNodeOp
    \/ (AddHostOp /\ Succeeds)
    \/ Provision

SpecNodes == Init /\ [][NextNodes]_vars

\* Node creation next to stopped, failed and remote nodes
NextCreate ==
    \/ CreateNodeOp
    \/ (StopNodeOp /\ Succeeds)
    \/ (AddHostOp /\ Succeeds)
    \/ Provision

SpecCreate == Init /\ [][NextCreate]_vars

\* Hosts, their clients and the Host Poller, with nodes being provisioned
NextHosts ==
    \/ AddHostOp \/ RemoveHostOp
    \/ pollHosts
    \/ EnvReachOp
    \/ (CreateNodeOp /\ Succeeds)
    \/ Provision

SpecHosts == Init /\ [][NextHosts]_vars

\* One node on the local host, with the default staking port
CreateLocalNode ==
    \E req \in CreateNodeReqs :
        req.name = "n1" /\ req.host = 0 /\ req.port = 0 /\ CreateNode(req) /\ Succeeds

\* L1 "x" first and L1 "y" second; "y" alone may carry the second subnet id
CreateL1InOrder ==
    \E req \in CreateL1Reqs :
        /\ req.name = (IF nextL1 = 1 THEN "x" ELSE "y")
        /\ (req.subnet = "s2" => nextL1 > 1)
        /\ CreateL1(req) /\ Succeeds

\* Validator-set changes on one node and the reconfiguration they trigger
NextValidators ==
    \/ CreateLocalNode \/ CreateL1InOrder
    \/ AddValidatorOp \/ (RemoveValidatorOp /\ Succeeds)
    \/ Provision \/ Reconfigure

SpecValidators == Init /\ [][NextValidators]_vars

\* One L1 with a subnet id
CreateConfiguredL1 ==
    \E req \in CreateL1Reqs :
        req.name = "x" /\ req.subnet = "s1" /\ CreateL1(req) /\ Succeeds

\* The Health Poller next to stops, starts and reconfigurations of one node
NextHealth ==
    \/ CreateLocalNode \/ CreateConfiguredL1
    \/ (AddValidatorOp /\ Succeeds) \/ (RemoveValidatorOp /\ Succeeds)
    \/ (StartNodeOp /\ Succeeds) \/ (StopNodeOp /\ Succeeds)
    \/ Provision \/ Reconfigure
    \/ pollHealth

SpecHealth == Init /\ [][NextHealth]_vars

\* The Health Poller next to the Host Poller, with nodes on a remote host
NextHealthHosts ==
    \/ (AddHostOp /\ Succeeds)
    \/ (CreateNodeOp /\ Succeeds)
    \/ Provision
    \/ pollHosts
    \/ EnvReachOp
    \/ pollHealth

SpecHealthHosts == Init /\ [][NextHealthHosts]_vars

\* The Host Poller on its ticker: as long as the process runs, a cycle that
\* can take a step does take it
NextHostsFair ==
    \/ AddHostOp
    \/ RemoveHostOp
    \/ EnvReachOp
    \/ pollHosts
    \/ Restart

SpecHostsFair == Init /\ [][NextHostsFair]_vars /\ WF_vars(pollHosts)

\* The two pollers and the shutdown of main.  A cycle that has begun goes on
\* to its end (every call in it has a 20 s deadline); a poller whose select
\* can take the stop case again and again does take it; Wait returns once
\* both pollers are done.
NextShutdown ==
    \/ (AddHostOp /\ Succeeds)
    \/ CreateLocalNode
    \/ Provision
    \/ EnvReachOp
    \/ pollHosts \/ pollHealth
    \/ StopHealthPollerClose \/ HealthPollerReturn \/ HostPollerReturn
    \/ StopHealthPollerReturn \/ CloseClients

SpecShutdown ==
    /\ Init /\ [][NextShutdown]_vars
    /\ WF_vars(PollHealthStep) /\ WF_vars(PollHostsStep)
    /\ SF_vars(HealthPollerReturn) /\ SF_vars(HostPollerReturn)
    /\ WF_vars(StopHealthPollerReturn)

\* DeleteL1 calls concurrent with AddValidator calls
NextRaceL1s ==
    \/ CreateLocalNode \/ CreateL1InOrder
    \/ DeleteL1Op
    \/ DeleteL1CheckOp \/ DeleteL1DeleteOp
    \/ AddValidatorCheckOp \/ AddValidatorInsertOp
    \/ (RemoveValidatorOp /\ Succeeds)
    \/ Provision \/ Reconfigure

SpecRaceL1s == Init /\ [][NextRaceL1s]_vars

\* The events table under calls of logEvent, the one statement that writes it
NextEvents == LogEvent

SpecEvents == Init /\ [][NextEvents]_vars

\* Reconfigurations of one node, each goroutine scheduled until it returns
\* (every runtime call returns, at the latest on the 5 min deadline)
NextValidatorsFair ==
    \/ CreateLocalNode \/ CreateL1InOrder
    \/ (AddValidatorOp /\ Succeeds)
    \/ Provision \/ Reconfigure

SpecValidatorsFair ==
    /\ Init /\ [][NextValidatorsFair]_vars
    /\ \A i \in 1..MaxTasks : WF_vars(reconfigureNode(i)) /\ WF_vars(provisionNode(i))

\* One L1 without a subnet id
CreatePendingL1 ==
    \E req \in CreateL1Reqs :
        req.name = "x" /\ req.subnet = "" /\ CreateL1(req) /\ Succeeds

\* Deletion of nodes whose containers may have been removed out-of-band
NextDelete ==
    \/ (CreateNodeOp /\ Succeeds) \/ DeleteNodeOp
    \/ (AddHostOp /\ Succeeds)
    \/ CreatePendingL1 \/ (AddValidatorOp /\ Succeeds) \/ (RemoveValidatorOp /\ Succeeds)
    \/ Provision
    \/ EnvReachOp \/ EnvRemoveOp

SpecDelete == Init /\ [][NextDelete]_vars

\* Restarts of the process over a store and runtimes that persist
NextRestart ==
    \/ (CreateNodeOp /\ Succeeds)
    \/ (AddHostOp /\ Succeeds)
    \/ Provision
    \/ EnvReachOp \/ EnvExitOp \/ EnvRemoveOp
    \/ Restart

SpecRestart == Init /\ [][NextRestart]_vars
\* Concurrent CreateNode and RemoveHost calls
NextRaceNodes ==
    \/ (AddHostOp /\ Succeeds)
    \/ CreateNodeCheckOp \/ CreateNodeInsertOp
    \/ RemoveHostOp
    \/ RemoveHostCheckOp \/ RemoveHostDeleteOp
    \/ Provision

SpecRaceNodes == Init /\ [][NextRaceNodes]_vars

\* Concurrent AddValidator calls on one node
NextRaceValidators ==
    \/ CreateLocalNode \/ CreateL1InOrder
    \/ AddValidatorOp
    \/ AddValidatorCheckOp \/ AddValidatorInsertOp
    \/ (RemoveValidatorOp /\ Succeeds)
    \/ Provision \/ Reconfigure

SpecRaceValidators == Init /\ [][NextRaceValidators]_vars

\* ------------------------------------------------------------ properties
\* C1: a successful CreateNode leaves the Node row with status creating, and
\* its provisioning task moves the Node to exactly one of running or failed:
\* the task never ends while the row it was started for is left in another
\* status.
C1_ProvisioningSettles ==
    [][/\ \A req \in CreateNodeReqs :
            (CreateNode(req) /\ ret'.err = "")
                => /\ nextNode \in DOMAIN nodes'
                   /\ nodes'[nextNode].status = "creating"
       /\ \A i \in 1..MaxTasks :
            (/\ tasks[i].kind = "prov"
             /\ tasks'[i].kind = "idle"
             /\ tasks[i].node \in DOMAIN nodes')
                => nodes'[tasks[i].node].status \in {"running", "failed"}]_vars

\* C2: in every reachable state no two Nodes on the same Host share a staking
\* port unless one of them is stopped or failed.
C2_StakingPortUnique ==
    \A a \in DOMAIN nodes : \A b \in DOMAIN nodes :
        (a # b /\ nodes[a].host = nodes[b].host /\ nodes[a].port = nodes[b].port)
            => (nodes[a].status \in {"stopped", "failed"}
                \/ nodes[b].status \in {"stopped", "failed"})

\* C3: no step takes a Node's status from creating to unhealthy or from
\* stopped to unhealthy.
C3_UnhealthyOnlyFromRunning ==
    [][\A n \in DOMAIN nodes \cap DOMAIN nodes' :
          ~(/\ nodes[n].status \in {"creating", "stopped"}
            /\ nodes'[n].status = "unhealthy")]_vars

\* C4: once no reconfigure task is in flight for a running Node, the
\* tracked-subnets setting of its container is the set of distinct non-empty
\* subnet ids of the L1s it is assigned to.
C4_TrackedSubnetsConverge ==
    \A n \in DOMAIN nodes :
        (/\ \A i \in 1..MaxTasks : tasks[i].kind = "idle"
         /\ nodes[n].status = "running"
         /\ nodes[n].cid \in DOMAIN containers)
            => containers[nodes[n].cid].subs
                 = {l1s[v[1]].subnet : v \in {w \in validators : w[2] = n}} \ {""}

\* C5: CreateNode with a name some Node row already carries fails with the
\* "already exists" conflict; no row is inserted, no event is logged and no
\* provisioning task is started.
C5_DuplicateNameRejected ==
    [][\A req \in CreateNodeReqs :
          (/\ \E n \in DOMAIN nodes : nodes[n].name = req.name
           /\ CreateNode(req))
              => /\ ret' = [op |-> "CreateNode", err |-> "already exists", res |-> ""]
                 /\ nodes' = nodes
                 /\ nextNode' = nextNode
                 /\ emitted' = <<>>
                 /\ tasks' = tasks]_vars

\* a CreateNode was refused for its name while the row of that name stands
C5_Witness ==
    /\ ret = [op |-> "CreateNode", err |-> "already exists", res |-> ""]
    /\ nodes # <<>>
    /\ emitted = <<>>

\* C6: CreateNode whose effective staking port (9651 when unspecified) is held
\* on the target Host by a Node that is not stopped or failed fails, with the
\* port conflict when the earlier checks pass, and inserts no row and starts
\* no task; a port held only by stopped or failed Nodes, or by Nodes of
\* another Host, does not block an otherwise valid request.
C6_PortConflictScope ==
    [][\A req \in CreateNodeReqs :
          CreateNode(req) =>
            LET port == IF req.port = 0 THEN 9651 ELSE req.port
                h == IF req.host = 0 THEN LocalHostID ELSE req.host
                held == \E n \in DOMAIN nodes :
                            /\ nodes[n].host = h
                            /\ nodes[n].port = port
                            /\ nodes[n].status \notin {"stopped", "failed"}
                valid == /\ req.name # ""
                         /\ \A n \in DOMAIN nodes : nodes[n].name # req.name
                         /\ h \in DOMAIN clients
                         /\ h \in DOMAIN hosts
            IN  /\ held => /\ ret'.err # ""
                           /\ nodes' = nodes
                           /\ tasks' = tasks
                           /\ emitted' = <<>>
                /\ (held /\ valid) => ret'.err = "staking port already in use"
                /\ (valid /\ ~held)
                      => /\ ret'.err = ""
                         /\ DOMAIN nodes' = DOMAIN nodes \cup {nextNode}
                         /\ nodes'[nextNode].host = h
                         /\ nodes'[nextNode].port = port
                         /\ nodes'[nextNode].status = "creating"]_vars

\* a CreateNode was refused for its port
C6_Witness ==
    /\ ret = [op |-> "CreateNode", err |-> "staking port already in use", res |-> ""]
    /\ \E n \in DOMAIN nodes : nodes[n].status \notin {"stopped", "failed"}

\* C7: AddValidator on an L1 whose subnet id is empty starts no reconfigure
\* task and leaves the Node and its container alone; a successful
\* AddValidator on an L1 with a subnet id starts exactly one reconfigure task,
\* for that Node.
C7_ReconfigureOnlyWithSubnet ==
    [][\A l \in 1..MaxL1s : \A n \in 1..MaxNodes :
          AddValidator(l, n) =>
            IF l \in DOMAIN l1s /\ l1s[l].subnet # ""
            THEN ret'.err = "" =>
                    \E i \in 1..MaxTasks :
                        /\ tasks[i].kind = "idle"
                        /\ tasks'[i].kind = "reconf"
                        /\ tasks'[i].pc = "begin"
                        /\ tasks'[i].node = n
                        /\ \A j \in 1..MaxTasks \ {i} : tasks'[j] = tasks[j]
            ELSE /\ tasks' = tasks
                 /\ nodes' = nodes
                 /\ containers' = containers]_vars

\* an assignment to an L1 without subnet id was just stored, and no
\* reconfigure task exists
C7_Witness ==
    /\ ret = [op |-> "AddValidator", err |-> "", res |-> ""]
    /\ \E v \in validators :
          /\ l1s[v[1]].subnet = ""
          /\ emitted = <<Ev("l1.validator.added", l1s[v[1]].name)>>
    /\ \A i \in 1..MaxTasks : tasks[i].kind # "reconf"

\* C8: when the process starts and reconciles, a second reconcile over the
\* same store, clients and containers would write no status, and the run
\* itself logs no event.
C8_ReconcileIdempotent ==
    [][restarts' # restarts
          => /\ \A n \in DOMAIN nodes' :
                  Reconciled(nodes', clients', containers', n) = nodes'[n].status
             /\ reconcile(nodes', clients', containers') = nodes'
             /\ emitted' = <<>>]_vars

\* the process was started again and reconcile marked a node stopped
C8_Witness ==
    /\ restarts > 0
    /\ ret = NoRet
    /\ \E n \in DOMAIN nodes : nodes[n].cid # NoCID /\ nodes[n].status = "stopped"

\* C9: DeleteNode on a Node whose recorded container is no longer on its
\* host, the host answering, succeeds: no error is returned, the Node row is
\* deleted and the deletion is logged.
C9_DeleteAfterOutOfBandRemoval ==
    [][\A n \in 1..MaxNodes :
          (/\ n \in DOMAIN nodes
           /\ nodes[n].cid # NoCID
           /\ nodes[n].cid \notin DOMAIN containers
           /\ nodes[n].host \in DOMAIN clients
           /\ Up(clients[nodes[n].host])
           /\ DeleteNode(n))
              => /\ ret'.err = ""
                 /\ n \notin DOMAIN nodes'
                 /\ emitted' = <<Ev("node.deleted", nodes[n].name)>>]_vars

\* C10: a Host Poller iteration over a remote Host whose runtime does not
\* answer (the ping through its client fails, or it has no client, and the
\* reconnect fails too) leaves the Host unreachable, with the
\* host.unreachable event when it was not unreachable before, and leaves no
\* client registered for it.
C10_UnreachableHostLosesClient ==
    [][(/\ hostpoll.pc = "loop"
        /\ hostpoll.todo # <<>>
        /\ hostpoll' # hostpoll
        /\ ~Up(Head(hostpoll.todo).ssh))
          => LET h == Head(hostpoll.todo)
             IN  /\ h.id \notin DOMAIN clients'
                 /\ h.id \in DOMAIN hosts' => hosts'[h.id].status = "unreachable"
                 /\ h.status # "unreachable"
                       => emitted' = <<Ev("host.unreachable", h.name)>>]_vars

\* the poller just found a remote host unreachable and dropped its client
C10_Witness ==
    /\ hostpoll.pc = "loop"
    /\ \E h \in DOMAIN hosts :
          /\ hosts[h].ssh # ""
          /\ hosts[h].status = "unreachable"
          /\ h \notin DOMAIN clients
          /\ emitted = <<Ev("host.unreachable", hosts[h].name)>>

\* C11: no task makes a runtime-client call through a client that was
\* unregistered (and so closed) after the task obtained it: every step a
\* provisioning or reconfiguration task takes after its clientFor is such a
\* call.
C11_NoCallOnClosedClient ==
    [][\A i \in 1..MaxTasks :
          ~(/\ tasks[i].kind \in {"prov", "reconf"}
            /\ tasks[i].m # NoClient
            /\ tasks[i].closed
            /\ (provisionNode(i) \/ reconfigureNode(i)))]_vars

\* C12: a host that some node references is never removed.  In every state
\* the host row of every node exists; a RemoveHost call on a host that a node
\* references returns an error and leaves the hosts table as it was, whether
\* the call sees the node in its own count or reaches its DELETE after a
\* concurrent CreateNode has inserted the node.
C12_ReferencedHostKept ==
    /\ [](\A n \in DOMAIN nodes : nodes[n].host \in DOMAIN hosts)
    /\ [][/\ \A h \in 1..MaxHosts :
               ((\E n \in DOMAIN nodes : nodes[n].host = h) /\ RemoveHost(h))
                   => (ret'.err # "" /\ hosts' = hosts)
           /\ \A i \in 1..MaxTasks :
               (/\ tasks[i].kind = "rmhost"
                /\ \E n \in DOMAIN nodes : nodes[n].host = tasks[i].host
                /\ RemoveHostDelete(i))
                   => (ret'.err = "delete host" /\ hosts' = hosts)]_vars

\* a RemoveHost call has passed its count, a CreateNode call has then put a
\* node on the host, and the DELETE has been refused
C12_Witness ==
    /\ ret.op = "RemoveHost"
    /\ ret.err = "delete host"
    /\ \E n \in DOMAIN nodes : nodes[n].host # LocalHostID

\* C20: node names are unique in every state.  When two CreateNode calls
\* with one name have both passed the name pre-check, the INSERT of the second
\* is refused by the table: it returns an error, adds no row, emits no event
\* and starts no provisioning task.
C20_NodeNamesUnique ==
    /\ [](\A a, b \in DOMAIN nodes : nodes[a].name = nodes[b].name => a = b)
    /\ [][\A i \in 1..MaxTasks :
             (/\ tasks[i].kind = "create"
              /\ \E n \in DOMAIN nodes : nodes[n].name = tasks[i].name
              /\ CreateNodeInsert(i))
                 => /\ ret'.err = "insert node"
                    /\ nodes' = nodes
                    /\ emitted' = <<>>
                    /\ tasks'[i] = IdleTask]_vars

\* the INSERT of a CreateNode call has been refused although no host was ever
\* added or removed: the name was taken between its pre-check and its INSERT
C20_Witness ==
    /\ ret.op = "CreateNode"
    /\ ret.err = "insert node"
    /\ nextHost = LocalHostID + 1
    /\ \E n \in DOMAIN nodes : nodes[n].status = "creating"

\* C13: in every state there is at most one l1_validators row for a pair of
\* L1 and node.  An AddValidator call for a pair that is already assigned
\* returns an error and inserts nothing, whether it finds the row in its own
\* check or reaches its INSERT after a concurrent AddValidator call for the
\* same pair has inserted it.
C13_OneAssignmentPerPair ==
    /\ [](\A v, w \in validators : (v[1] = w[1] /\ v[2] = w[2]) => v = w)
    /\ [][/\ \A l \in 1..MaxL1s, n \in 1..MaxNodes :
               ((\E v \in validators : v[1] = l /\ v[2] = n) /\ AddValidator(l, n))
                   => (ret'.err # "" /\ validators' = validators)
           /\ \A i \in 1..MaxTasks :
               (/\ tasks[i].kind = "addval"
                /\ \E v \in validators : v[1] = tasks[i].l1 /\ v[2] = tasks[i].node
                /\ AddValidatorInsert(i))
                   => /\ ret'.err = "insert validator"
                      /\ validators' = validators
                      /\ emitted' = <<>>
                      /\ tasks'[i] = IdleTask]_vars

\* the INSERT of an AddValidator call has been refused while its L1 and its
\* node are still there: the pair was assigned between its check and its INSERT
C13_Witness ==
    /\ ret.op = "AddValidator"
    /\ ret.err = "insert validator"
    /\ validators # {}
    /\ nextL1 = Cardinality(DOMAIN l1s) + 1
    /\ nextNode = Cardinality(DOMAIN nodes) + 1

\* C14: no step takes the status of a node from creating straight to stopped,
\* whichever operation takes the step.
C14_NoCreatingToStopped ==
    [][\A n \in DOMAIN nodes :
          (nodes[n].status = "creating" /\ n \in DOMAIN nodes')
              => nodes'[n].status # "stopped"]_vars

\* C15: a provisioning or reconfiguration task never ends without recording
\* its outcome.  In the step in which such a task ends, the node (when its row
\* is still there) is either running, or failed with a node.failed event
\* appended in that step.
C15_TaskOutcomeRecorded ==
    [][\A i \in 1..MaxTasks :
          (/\ tasks[i].kind \in {"prov", "reconf"}
           /\ tasks'[i].kind = "idle"
           /\ tasks[i].node \in DOMAIN nodes')
              => \/ nodes'[tasks[i].node].status = "running"
                 \/ /\ nodes'[tasks[i].node].status = "failed"
                    /\ \E k \in DOMAIN emitted' : emitted'[k][1] = "node.failed"]_vars

\* C16: when a provisioning or reconfiguration task has created a container
\* and its start of that container fails, the node ends failed and its
\* container id is the id of the container the task created.
C16_FailedStartKeepsContainer ==
    [][\A i \in 1..MaxTasks :
          (/\ tasks[i].kind \in {"prov", "reconf"}
           /\ tasks[i].pc = "start"
           /\ tasks'[i].kind = "idle"
           /\ \E k \in DOMAIN emitted' : emitted'[k][1] = "node.failed"
           /\ tasks[i].node \in DOMAIN nodes')
              => /\ nodes'[tasks[i].node].status = "failed"
                 /\ nodes'[tasks[i].node].cid = tasks[i].cid]_vars

\* C17 as stated: a Health Poller step leaves the status of every node whose
\* host has no registered client as it was.
C17_ClientlessNodeUntouched ==
    [][PollHealthStep
          => \A n \in DOMAIN nodes :
                (nodes[n].host \notin DOMAIN clients \/ clients[nodes[n].host] = NoClient)
                    => nodes'[n].status = nodes[n].status]_vars

\* C17, amended: for a node whose host has no registered client the Health
\* Poller never inspects the container and so never writes stopped; the only
\* changes it makes are to unhealthy, for a node it read as running, and to
\* running, for a node it read as unhealthy.
C17_ClientlessNodeNeverStopped ==
    [][(hpoll.pc = "loop" /\ hpoll.todo # <<>> /\ PollHealthStep)
          => LET node == Head(hpoll.todo)
             IN  (/\ (node.host \notin DOMAIN clients \/ clients[node.host] = NoClient)
                  /\ node.id \in DOMAIN nodes)
                     => \/ nodes'[node.id].status = nodes[node.id].status
                        \/ node.status = "running"
                              /\ nodes'[node.id].status = "unhealthy"
                        \/ node.status = "unhealthy"
                              /\ nodes'[node.id].status = "running"]_vars

\* the Health Poller has just made a node unhealthy whose host has no client
C17_Witness ==
    /\ Len(emitted) >= 1
    /\ emitted[1][1] = "node.health"
    /\ \E n \in DOMAIN nodes :
          /\ nodes[n].name = emitted[1][2]
          /\ nodes[n].status = "unhealthy"
          /\ clientFor(nodes[n].host) = NoClient

\* C18: when the runtime of a remote host is reachable from some point on
\* (and the host row stays), the Host Poller again and again has the host
\* online with a registered client that answers, whatever the status and the
\* registered client were at that point.
C18_ReachableHostComesOnline ==
    \A h \in 1..MaxHosts :
        <>[](h \in DOMAIN hosts /\ hosts[h].ssh # "" /\ Up(hosts[h].ssh))
            => []<>(/\ h \in DOMAIN hosts
                    /\ hosts[h].status = "online"
                    /\ h \in DOMAIN clients
                    /\ clients[h] = hosts[h].ssh)

\* the Host Poller has just brought back a host that had no client
C18_Witness ==
    /\ hostpoll.pc = "loop"
    /\ Len(emitted) = 1
    /\ emitted[1][1] = "host.online"
    /\ restarts = 1
    /\ \E h \in DOMAIN hosts :
          /\ hosts[h].name = emitted[1][2]
          /\ hosts[h].status = "online"
          /\ clientFor(h) = hosts[h].ssh

\* C19 as stated, its first part: once main has closed stopPoller, no cycle
\* of the Health Poller or of the Host Poller begins.
C19_NoCycleAfterSignal ==
    [][mainpc # "serving" => ~(PollHealthBegin \/ PollHostsBegin)]_vars

\* C19, amended: after the signal a poller may still begin a cycle on a tick
\* that is pending, but StopHealthPoller returns only when both pollers have
\* left their loops, it does return, and from then on (so also after
\* CloseClients) no step of either poller is taken.
C19_PollersStopBeforeClose ==
    /\ [][(mainpc = "stopping" /\ mainpc' = "stopped")
             => (hpoll.pc = "exited" /\ hostpoll.pc = "exited")]_vars
    /\ [][(mainpc \in {"stopped", "closed"}) => ~(pollHealth \/ pollHosts)]_vars
    /\ (mainpc = "stopping") ~> (mainpc = "stopped")

\* CloseClients has run with a remote client registered, after both pollers
\* left their loops
C19_Witness ==
    /\ mainpc = "closed"
    /\ \E h \in DOMAIN clients : h # LocalHostID
    /\ hpoll.pc = "exited" /\ hostpoll.pc = "exited"

\* C21: in every state an L1 has status pending exactly when its subnet id is
\* empty, and an L1 with a subnet id has status configured.
C21_PendingIffNoSubnet ==
    \A l \in DOMAIN l1s :
        /\ (l1s[l].status = "pending") <=> (l1s[l].subnet = "")
        /\ (l1s[l].subnet # "") => (l1s[l].status = "configured")

\* an L1 with a subnet id and an L1 without one exist side by side
C21_Witness ==
    /\ \E l \in DOMAIN l1s : l1s[l].subnet # "" /\ l1s[l].status = "configured"
    /\ \E l \in DOMAIN l1s : l1s[l].subnet = "" /\ l1s[l].status = "pending"

\* C22: a RemoveValidator call leaves the l1s table as it was, also when it
\* removes the last assignment of its L1; of the store it changes only the
\* set of assignments.
C22_RemoveValidatorKeepsL1 ==
    [][ret'.op = "RemoveValidator"
          => /\ l1s' = l1s
             /\ nodes' = nodes
             /\ hosts' = hosts]_vars

\* RemoveValidator has just removed the last assignment of a configured L1
C22_Witness ==
    /\ ret.op = "RemoveValidator"
    /\ ret.err = ""
    /\ Len(emitted) = 1
    /\ \E l \in DOMAIN l1s :
          /\ l1s[l].name = emitted[1][2]
          /\ l1s[l].status = "configured"
          /\ \A v \in validators : v[1] # l

\* C23: an L1 that has an assignment is never deleted.  A DeleteL1 call on
\* such an L1 returns an error and leaves l1s and the assignments as they
\* were, whether it counts the assignment itself or reaches its DELETE after
\* a concurrent AddValidator call has inserted one; and in every state the
\* L1 of every assignment exists.
C23_L1WithValidatorsKept ==
    /\ [](\A v \in validators : v[1] \in DOMAIN l1s)
    /\ [][/\ \A l \in 1..MaxL1s :
               ((\E v \in validators : v[1] = l) /\ DeleteL1(l))
                   => (ret'.err # "" /\ l1s' = l1s /\ validators' = validators)
           /\ \A i \in 1..MaxTasks :
               (/\ tasks[i].kind = "rml1"
                /\ \E v \in validators : v[1] = tasks[i].l1
                /\ DeleteL1Delete(i))
                   => /\ ret'.err = "delete L1"
                      /\ l1s' = l1s
                      /\ validators' = validators]_vars

\* the DELETE of a DeleteL1 call has been refused: an assignment was inserted
\* between its count and its DELETE
C23_Witness ==
    /\ ret.op = "DeleteL1"
    /\ ret.err = "delete L1"
    /\ validators # {}

\* C24: in every state exactly one host row has the name local.  Restarts
\* reuse the row, no AddHost call adds a second one, and every RemoveHost call
\* on the local host returns an error and leaves the hosts table as it was.
C24_OneLocalHost ==
    /\ [](Cardinality({h \in DOMAIN hosts : hosts[h].name = "local"}) = 1)
    /\ [][RemoveHost(LocalHostID) => (ret'.err # "" /\ hosts' = hosts)]_vars
    /\ [][\A req \in AddHostReqs :
             (req.name = "local" /\ AddHost(req)) => (ret'.err # "" /\ hosts' = hosts)]_vars

\* after a restart, with a remote host registered, a RemoveHost call on the
\* local host has been rejected
C24_Witness ==
    /\ ret.op = "RemoveHost"
    /\ ret.err = "cannot remove the local host"
    /\ restarts = 1
    /\ Cardinality(DOMAIN hosts) = 2

\* C25: the events table only grows.  Every step leaves each row that was
\* in the table where it was and as it was; it can only add rows after them.
C25_EventsAppendOnly ==
    [][/\ Len(events') >= Len(events)
       /\ \A k \in 1..Len(events) : events'[k] = events[k]]_vars

\* the table holds the rows of three calls
C25_Witness ==
    /\ Len(events) = 3
    /\ events[1] # events[3]

\* C26: in a Health Poller step the status written for the node at hand
\* follows from the status read at the start of the cycle and the probes.
\* Read unhealthy and answering healthy gives running; read running and not
\* answering healthy gives stopped when the container is inspected and is not
\* running, unhealthy otherwise; anything else is no write.  No other node is
\* touched, and a node that was not running or unhealthy, or had no container
\* id, at the start of the cycle is not in the cycle at all.
C26_HealthTransition ==
    [][PollHealthStep
          => IF hpoll.todo = <<>> THEN nodes' = nodes
             ELSE LET node == Head(hpoll.todo)
                      dc == IF node.host \in DOMAIN clients THEN clients[node.host]
                            ELSE NoClient
                      notRunning ==
                          /\ dc # NoClient
                          /\ ~(/\ Up(dc)
                               /\ node.cid \in DOMAIN containers
                               /\ containers[node.cid].m = dc
                               /\ containers[node.cid].state
                                      \in {"running", "restarting", "paused"})
                  IN  /\ node.status \in {"running", "unhealthy"}
                      /\ node.cid # NoCID
                      /\ \A n \in DOMAIN nodes :
                            n # node.id => nodes'[n].status = nodes[n].status
                      /\ node.id \in DOMAIN nodes
                            => \E healthy \in BOOLEAN :
                                 LET new == IF node.status = "unhealthy" /\ healthy
                                            THEN "running"
                                            ELSE IF node.status = "running" /\ ~healthy
                                                 THEN IF notRunning THEN "stopped"
                                                      ELSE "unhealthy"
                                            ELSE node.status
                                 IN  nodes'[node.id].status =
                                        IF new # node.status THEN new
                                        ELSE nodes[node.id].status]_vars

\* the Health Poller has just set a node to stopped after inspecting it
C26_Witness ==
    /\ hpoll.pc = "loop"
    /\ Len(emitted) >= 1
    /\ emitted[1][1] = "node.health"
    /\ \E n \in DOMAIN nodes :
          nodes[n].name = emitted[1][2] /\ nodes[n].status = "stopped"

\* C27: reconcile sets the status of a node that has a container id, on a
\* host whose containers were listed, by the container named for the node:
\* stopped when there is none, running when it is running, stopped when it
\* is exited or dead, creating when it is created or restarting, stopped for
\* any other state.
C27_ReconcileMapping ==
    /\ [](/\ ReconcileStatus(FALSE, "") = "stopped"
          /\ \A st \in ContainerStates :
                ReconcileStatus(TRUE, st) =
                    IF st = "running" THEN "running"
                    ELSE IF st \in {"created", "restarting"} THEN "creating"
                    ELSE "stopped")
    /\ [][restarts' # restarts
             => \A n \in DOMAIN nodes :
                   (/\ nodes[n].cid # NoCID
                    /\ nodes[n].host \in DOMAIN clients')
                       => LET named == {c \in DOMAIN containers :
                                           /\ containers[c].m = clients'[nodes[n].host]
                                           /\ containers[c].name = <<"avax", nodes[n].name>>}
                          IN  /\ named = {} => nodes'[n].status = "stopped"
                              /\ \A c \in named :
                                    nodes'[n].status =
                                        IF containers[c].state = "running" THEN "running"
                                        ELSE IF containers[c].state
                                                   \in {"created", "restarting"}
                                             THEN "creating"
                                        ELSE "stopped"]_vars

\* the process was started again and reconcile found the container of a
\* node created but not started
C27_Witness ==
    /\ restarts = 1
    /\ ret = NoRet /\ emitted = <<>>
    /\ \A i \in 1..MaxTasks : tasks[i].kind = "idle"
    /\ \E n \in DOMAIN nodes :
          /\ nodes[n].status = "creating"
          /\ nodes[n].host \in DOMAIN clients
          /\ nodes[n].cid \in DOMAIN containers
          /\ containers[nodes[n].cid].state = "created"

\* C28: reconcile leaves a node as it was when the node has no container id,
\* or when its host has no client whose containers were listed.
C28_ReconcileSkips ==
    [][restarts' # restarts
          => \A n \in DOMAIN nodes :
                (\/ nodes[n].cid = NoCID
                 \/ nodes[n].host \notin DOMAIN clients'
                 \/ ~Up(clients'[nodes[n].host]))
                    => (n \in DOMAIN nodes' /\ nodes'[n] = nodes[n])]_vars

\* the process was started again while a remote host was down: its node
\* still has the status it had
C28_Witness ==
    /\ restarts = 1
    /\ ret = NoRet /\ emitted = <<>>
    /\ \E n \in DOMAIN nodes :
          /\ nodes[n].host \notin DOMAIN clients
          /\ nodes[n].cid # NoCID
          /\ nodes[n].status = "running"

\* C29: a reconfiguration task that has set its node to creating ends, and
\* in the step in which it ends it sets the node either to running, logging
\* node.reconfigured, or to failed, logging node.failed; the step that fails
\* is its last, so no container operation follows a failure.
C29_ReconfigureSettles ==
    /\ [][\A i \in 1..MaxTasks :
             (/\ tasks[i].kind = "reconf"
              /\ tasks[i].pc # "begin"
              /\ tasks'[i] # tasks[i]
              /\ tasks[i].node \in DOMAIN nodes')
                 => \/ /\ tasks'[i].kind = "reconf"
                       /\ emitted' = <<>>
                    \/ /\ tasks'[i] = IdleTask
                       /\ nodes'[tasks[i].node].status = "running"
                       /\ emitted' = <<<<"node.reconfigured", tasks[i].name>>>>
                    \/ /\ tasks'[i] = IdleTask
                       /\ nodes'[tasks[i].node].status = "failed"
                       /\ emitted' = <<<<"node.failed", tasks[i].name>>>>]_vars
    /\ \A i \in 1..MaxTasks :
          (tasks[i].kind = "reconf" /\ tasks[i].pc # "begin") ~> (tasks[i].kind = "idle")

\* a reconfiguration has just ended with the node running on a container
\* that tracks a subnet
C29_Witness ==
    /\ emitted = <<<<"node.reconfigured", "n1">>>>
    /\ \E n \in DOMAIN nodes :
          /\ nodes[n].status = "running"
          /\ nodes[n].cid \in DOMAIN containers
          /\ containers[nodes[n].cid].subs # {}

\* Start and Stop calls on local and remote nodes, with hosts that go down and
\* restarts that leave a down host without a client
NextStartStop ==
    \/ (CreateNodeOp /\ Succeeds)
    \/ StartNodeOp \/ StopNodeOp
    \/ (AddHostOp /\ Succeeds)
    \/ Provision
    \/ EnvReachOp
    \/ Restart

SpecStartStop == Init /\ [][NextStartStop]_vars

\* C30: StartNode and StopNode return an error, leave every node row and
\* every container as they are and log no event when the node does not exist,
\* has no container id, already has the target status (running for Start,
\* stopped for Stop), its host has no registered client, or the runtime call
\* fails; only when the runtime call succeeds do they set the node's status
\* to the target, change no other node row and log node.started / node.stopped.
C30_StartStopGuarded ==
    [][\A n \in 1..MaxNodes :
          /\ StartNode(n) =>
                LET refused == \/ n \notin DOMAIN nodes
                               \/ nodes[n].cid = NoCID
                               \/ nodes[n].status = "running"
                               \/ nodes[n].host \notin DOMAIN clients
                               \/ ~Up(clients[nodes[n].host])
                               \/ nodes[n].cid \notin OnMachine(containers, clients[nodes[n].host])
                               \/ PortBusy(containers, clients[nodes[n].host], nodes[n].cid)
                IN  /\ refused => ret'.err # ""
                    /\ ret'.err # "" => /\ refused /\ nodes' = nodes
                                        /\ containers' = containers /\ emitted' = <<>>
                    /\ ret'.err = "" =>
                          /\ nodes' = [nodes EXCEPT ![n].status = "running"]
                          /\ containers'[nodes[n].cid].state = "running"
                          /\ emitted' = <<<<"node.started", nodes[n].name>>>>
          /\ StopNode(n) =>
                LET refused == \/ n \notin DOMAIN nodes
                               \/ nodes[n].cid = NoCID
                               \/ nodes[n].status = "stopped"
                               \/ nodes[n].host \notin DOMAIN clients
                               \/ ~Up(clients[nodes[n].host])
                               \/ nodes[n].cid \notin OnMachine(containers, clients[nodes[n].host])
                IN  /\ refused => ret'.err # ""
                    /\ ret'.err # "" => /\ refused /\ nodes' = nodes
                                        /\ containers' = containers /\ emitted' = <<>>
                    /\ ret'.err = "" =>
                          /\ nodes' = [nodes EXCEPT ![n].status = "stopped"]
                          /\ containers'[nodes[n].cid].state # "running"
                          /\ emitted' = <<<<"node.stopped", nodes[n].name>>>>]_vars
\* a StartNode refused because the node is already running
C30_Witness ==
    /\ ret.op = "StartNode" /\ ret.err = "already running" /\ emitted = <<>>
    /\ \E n \in DOMAIN nodes : nodes[n].status = "running" /\ nodes[n].cid # NoCID

\* C31: a DeleteNode call on an existing Node that gets past the container
\* handling (the Node has no container id, or the removal succeeded or
\* answered "No such container") deletes the Node row and logs node.deleted,
\* whatever the Node's status and whatever assignments reference it.
C31_DeleteAlwaysDropsRow ==
    [][\A n \in 1..MaxNodes :
          (/\ n \in DOMAIN nodes
           /\ DeleteNode(n)
           /\ \/ nodes[n].cid = NoCID
              \/ ret'.res \in {"ok", "No such container"})
              => /\ n \notin DOMAIN nodes'
                 /\ emitted' = <<<<"node.deleted", nodes[n].name>>>>]_vars

\* Node creation with every input next to hosts that are down at a restart
\* and so are left without a client
NextCreateHosts ==
    \/ CreateNodeOp
    \/ (AddHostOp /\ Succeeds)
    \/ EnvReachOp
    \/ Restart
    \/ Provision

SpecCreateHosts == Init /\ [][NextCreateHosts]_vars

\* C32: a CreateNode call with an empty name, or whose host (the request's,
\* or the local host when the request names none) has no client in the Host
\* Registry, returns an error, inserts no Node row, logs no event and starts
\* no provisioning task.
C32_CreateNodeRefused ==
    [][\A req \in CreateNodeReqs :
          (/\ \/ req.name = ""
              \/ (IF req.host = 0 THEN LocalHostID ELSE req.host) \notin DOMAIN clients
           /\ CreateNode(req))
              => /\ ret'.err # ""
                 /\ nodes' = nodes /\ nextNode' = nextNode
                 /\ tasks' = tasks
                 /\ emitted' = <<>>]_vars
\* a CreateNode refused for a host row that has no client
C32_Witness ==
    /\ ret.op = "CreateNode" /\ ret.err = "host not connected"
    /\ \E h \in DOMAIN hosts : h \notin DOMAIN clients

\* C33: a restart whose Reconciliation changes a Node's persisted status
\* appends an Event that names that Node.
C33_ReconcileChangeLogged ==
    [][(restarts' # restarts)
          => \A n \in DOMAIN nodes :
                (n \in DOMAIN nodes' /\ nodes'[n].status # nodes[n].status)
                   => \E k \in 1..Len(emitted') : emitted'[k][2] = nodes[n].name]_vars

\* C34: a Node's identity changes only in a Health Poller iteration over that
\* Node in which the Node can answer healthy and the identity, as read by the
\* cycle and as stored, is empty; a non-empty identity is never changed or
\* cleared by any step (reconfiguration included), and node.identified is
\* logged only by an iteration that found the identity empty and stored one.
C34_IdentityWrittenOnce ==
    [][/\ \A n \in DOMAIN nodes :
             (n \in DOMAIN nodes')
                => /\ (nodes[n].nodeID # "") => nodes'[n].nodeID = nodes[n].nodeID
                   /\ (nodes'[n].nodeID # nodes[n].nodeID)
                         => /\ hpoll.pc = "loop" /\ hpoll.todo # <<>>
                            /\ hpoll' = [hpoll EXCEPT !.todo = Tail(@)]
                            /\ Head(hpoll.todo).id = n
                            /\ Head(hpoll.todo).nodeID = ""
                            /\ CanAnswer(nodes[n].name, nodes[n].host)
       /\ (\E k \in 1..Len(emitted') : emitted'[k][1] = "node.identified")
             => /\ hpoll.pc = "loop" /\ hpoll.todo # <<>>
                /\ Head(hpoll.todo).nodeID = ""
                /\ Head(hpoll.todo).id \in DOMAIN nodes
                      => /\ nodes[Head(hpoll.todo).id].nodeID = ""
                         /\ nodes'[Head(hpoll.todo).id].nodeID # ""]_vars
\* a node that has its identity is being reconfigured
C34_Witness ==
    \E i \in 1..MaxTasks :
        /\ tasks[i].kind = "reconf" /\ tasks[i].pc # "begin"
        /\ tasks[i].node \in DOMAIN nodes
        /\ nodes[tasks[i].node].nodeID # ""
        /\ nodes[tasks[i].node].status = "creating"

\* Removal of assignments that exist and of assignments that do not
NextRemoveValidator ==
    \/ CreateLocalNode \/ CreateL1InOrder
    \/ (AddValidatorOp /\ Succeeds)
    \/ RemoveValidatorOp
    \/ Provision \/ Reconfigure

SpecRemoveValidator == Init /\ [][NextRemoveValidator]_vars

\* C35: RemoveValidator for a pair (L1, Node) with no assignment returns a
\* not-found error, deletes nothing, logs no event and starts no
\* reconfiguration; for a pair with an assignment it deletes the rows of that
\* pair and no other, logs l1.validator.removed, and starts a reconfiguration
\* of that Node exactly when the L1's subnet id is not empty.
C35_RemoveValidatorExact ==
    [][\A l \in 1..MaxL1s, n \in 1..MaxNodes :
          RemoveValidator(l, n) =>
             IF \A v \in validators : ~(v[1] = l /\ v[2] = n)
             THEN /\ ret'.err \in {"L1 not found", "validator assignment not found"}
                  /\ validators' = validators
                  /\ emitted' = <<>>
                  /\ tasks' = tasks
             ELSE /\ ret'.err = ""
                  /\ validators' = {v \in validators : v[1] # l \/ v[2] # n}
                  /\ emitted' = <<<<"l1.validator.removed", l1s[l].name>>>>
                  /\ IF l1s[l].subnet # ""
                     THEN \E i \in 1..MaxTasks :
                             /\ tasks[i].kind = "idle"
                             /\ tasks'[i].kind = "reconf" /\ tasks'[i].pc = "begin"
                             /\ tasks'[i].node = n
                             /\ \A j \in 1..MaxTasks \ {i} : tasks'[j] = tasks[j]
                     ELSE tasks' = tasks]_vars
\* an assignment to a pending L1 was removed while the node keeps another one
C35_Witness ==
    /\ ret.op = "RemoveValidator" /\ ret.err = ""
    /\ emitted # <<>> /\ emitted[1][1] = "l1.validator.removed"
    /\ \E l \in DOMAIN l1s : l1s[l].subnet = "" /\ l1s[l].name = emitted[1][2]
    /\ validators # {}
    /\ \A i \in 1..MaxTasks : tasks[i].kind = "idle"

\* C36: whenever no provisioning or reconfiguration task is in flight, every
\* managed container on a host is the container of an existing Node row on
\* that host (the row of the Node the container is named after).
C36_NoOrphanContainer ==
    (\A i \in 1..MaxTasks : tasks[i].kind \notin {"prov", "reconf"})
       => \A c \in DOMAIN containers :
             \E n \in DOMAIN nodes :
                /\ ContainerName(nodes[n].name) = containers[c].name
                /\ nodes[n].host \in DOMAIN hosts
                /\ MachineOf(nodes[n].host) = containers[c].m

\* C37: a Node with status failed and no provisioning or reconfiguration task
\* in flight has no running container on its host.
C37_FailedHasNoRunningContainer ==
    \A n \in DOMAIN nodes :
       (/\ nodes[n].status = "failed"
        /\ \A i \in 1..MaxTasks :
              ~(tasks[i].kind \in {"prov", "reconf"} /\ tasks[i].node = n))
          => \A c \in DOMAIN containers :
                (/\ containers[c].name = ContainerName(nodes[n].name)
                 /\ containers[c].m = MachineOf(nodes[n].host))
                   => containers[c].state # "running"

\* C38: a RemoveHost call that returns an error (local host, host with
\* nodes, unknown host, or a DELETE the store rejects) leaves the hosts table
\* and the registered clients exactly as they were.
C38_FailedRemoveHostKeepsClient ==
    [][(ret'.op = "RemoveHost" /\ ret'.err # "")
          => /\ hosts' = hosts
             /\ clients' = clients]_vars

NextRaceAssignments ==
    \/ CreateLocalNode \/ CreatePendingL1
    \/ DeleteNodeOp
    \/ DeleteL1CheckOp \/ DeleteL1DeleteOp
    \/ AddValidatorCheckOp \/ AddValidatorInsertOp
    \/ (RemoveValidatorOp /\ Succeeds)
    \/ Provision

SpecRaceAssignments == Init /\ [][NextRaceAssignments]_vars

\* C40: in every state every assignment references an L1 row and a Node row
\* that both exist.
C40_NoDanglingAssignment ==
    \A v \in validators : v[1] \in DOMAIN l1s /\ v[2] \in DOMAIN nodes
\* a DeleteNode call was refused by the store because the node has an
\* assignment, and an AddValidator call is between its checks and its INSERT
C40_Witness ==
    /\ ret.op = "DeleteNode" /\ ret.err = "delete node row"
    /\ validators # {}
    /\ \E i \in 1..MaxTasks : tasks[i].kind = "addval"

====
